---- MODULE Spec2Model ----
(***************************************************************************)
(* ChamberCourt engine core (src/chambercourt/game.py): the tile grid, the *)
(* level cache, save/restore of the position, the default game rules and   *)
(* the play loop of Game.run.                                              *)
(*                                                                         *)
(* Positions are pygame Vector2 values.  Every coordinate the program      *)
(* computes is a multiple of 1/frames = 1/8, which binary floating point   *)
(* represents exactly, so a coordinate is modelled as an integer number of *)
(* eighths of a cell: the cell (1, 0) is the position <<8, 0>>.            *)
(***************************************************************************)
EXTENDS Integers, Sequences, FiniteSets, TLC

\* ------------------------------------------------------------------------
\* Tiles (chambercourt_game.py) and the engine's class constants
\* ------------------------------------------------------------------------

EMPTY == "empty"
BRICK == "brick"
JEWEL == "jewel"
HERO == "hero"

Tile == {EMPTY, BRICK, JEWEL, HERO}

\* ChambercourtGame.__init__: Game(..., Tile.HERO, Tile.EMPTY, Tile.BRICK)
hero_tile == HERO
empty_tile == EMPTY
default_tile == BRICK

\* Game.frames: number of frames over which a hero move is animated
frames == 8

\* ------------------------------------------------------------------------
\* Level files.  A file holds the tileset (the declared type of each
\* tileset tile, in GID order; GID 0 is "no tile") and one layer of
\* tile-ID rows, data[y + 1][x + 1].
\* ------------------------------------------------------------------------

\* level 1: 3 x 1, the hero between a jewel and a brick
Level1File ==
    [tileset |-> <<EMPTY, BRICK, JEWEL, HERO>>,
     data |-> << <<3, 4, 2>> >>]

\* level 2: 2 x 2 with a gap at (0, 1), drawn with a tileset that declares
\* no brick tile
Level2File ==
    [tileset |-> <<EMPTY, JEWEL, HERO>>,
     data |-> << <<3, 2>>,
                 <<0, 1>> >>]

\* the sorted list of level files found by main()
levels_files == <<Level1File, Level2File>>

\* main(): self.num_levels = len(self.levels_files)
num_levels == Len(levels_files)

Levels == 1..num_levels

\* level.stat().st_mtime: the modification time of level file l.  The files
\* on disk are the field files of the record, as the saved position is the
\* field saved.
st_mtime(s, l) == s.files[l].st_mtime

\* the level files as they are when the program starts; they are edited
\* only where an action says so
FilesAtStart ==
    [l \in Levels |-> [st_mtime |-> l, content |-> levels_files[l]]]

\* ------------------------------------------------------------------------
\* Vector2 arithmetic in eighths of a cell
\* ------------------------------------------------------------------------

Vector2(x, y) == <<x * frames, y * frames>>

VAdd(p, q) == <<p[1] + q[1], p[2] + q[2]>>

\* int(c) of a float: truncation toward zero
int(c) == IF c >= 0 THEN c \div frames ELSE -((-c) \div frames)

\* ------------------------------------------------------------------------
\* The Game object.  A tile grid is a mutable Python object; the objects
\* the program keeps are the cached grids map_tiles[level] (object l) and
\* the most recent grid made by copy.deepcopy or pickle.load (object 0).
\* ref is the object self._map_tiles refers to.
\* ------------------------------------------------------------------------

NoFile == <<>>

\* the grid self._map_tiles refers to
Live(s) == IF s.ref = 0 THEN s.fresh ELSE s.map_tiles[s.ref]

\* self._map_tiles[y][x] = v
Store(s, x, y, v) ==
    IF s.ref = 0
    THEN [s EXCEPT !.fresh[y + 1][x + 1] = v]
    ELSE [s EXCEPT !.map_tiles[s.ref][y + 1][x + 1] = v]

InRange(s, x, y) ==
    (0 <= x /\ x < s.level_width) /\ (0 <= y /\ y < s.level_height)

\* Game.get
get(s, pos) ==
    LET x == int(pos[1])
        y == int(pos[2])
    IN  IF ~InRange(s, x, y) THEN default_tile
        ELSE LET block == Live(s)[y + 1][x + 1]
             IN  IF block = 0 THEN empty_tile
                 ELSE s.tmx_data[s.map_data].tileset[block]

\* Game._set
set1(s, pos, tile) ==
    LET x == int(pos[1])
        y == int(pos[2])
    IN  IF s.raised # "none" THEN s
        ELSE IF ~InRange(s, x, y) THEN s
        ELSE IF tile \notin DOMAIN s.gids
        THEN [s EXCEPT !.raised = "KeyError"]
        ELSE Store(s, x, y, s.gids[tile])

\* Game.set with the second raw write left out
set_once(s, pos, tile) == set1(s, pos, empty_tile)

\* Game.set: two raw writes
set(s, pos, tile) == set1(set1(s, pos, empty_tile), pos, tile)

\* copy.deepcopy(grid) / pickle.load(fh): a new object holding grid
NewObject(s, grid) == [s EXCEPT !.fresh = grid]

\* Game.set_map: self._map_tiles (and the document's layer data) now
\* refer to the object obj
set_map(s, obj) == [s EXCEPT !.ref = obj]

\* pytmx.TiledMap(level): the parsed document
TiledMap(s, l) ==
    [tileset |-> s.files[l].content.tileset,
     width |-> Len(s.files[l].content.data[1]),
     height |-> Len(s.files[l].content.data),
     data |-> s.files[l].content.data]

\* load_level() taking every change of the modification time for an edit
newer_or_older(mtime, timestamp) == mtime # timestamp

\* load_level(): if mtime > self.map_timestamp[level]
newer(mtime, timestamp) == mtime > timestamp

\* Game.load_level installing the cached grid itself, not a copy of it
load_level_shared(s, l) ==
    LET mtime == st_mtime(s, l)
        s1 == IF newer(mtime, s.map_timestamp[l])
              THEN [s EXCEPT !.map_timestamp[l] = mtime,
                             !.tmx_data[l] = TiledMap(s, l),
                             !.map_tiles[l] = TiledMap(s, l).data]
              ELSE s
        s2 == [s1 EXCEPT !.map_data = l]
    IN  set_map(s2, l)

\* Game.load_level
load_level(s, l) ==
    LET mtime == st_mtime(s, l)
        s1 == IF newer(mtime, s.map_timestamp[l])
              THEN [s EXCEPT !.map_timestamp[l] = mtime,
                             !.tmx_data[l] = TiledMap(s, l),
                             !.map_tiles[l] = TiledMap(s, l).data]
              ELSE s
        s2 == [s1 EXCEPT !.map_data = l]
    IN  set_map(NewObject(s2, s2.map_tiles[l]), 0)

\* Game.init_game: scan x outermost, y innermost
RECURSIVE init_game_from(_, _)
init_game_from(s, k) ==
    IF k >= s.level_width * s.level_height \/ s.raised # "none" THEN s
    ELSE LET x == k \div s.level_height
             y == k % s.level_height
         IN  IF get(s, Vector2(x, y)) = hero_tile
             THEN LET s1 == [s EXCEPT !.hero.position = Vector2(x, y)]
                  IN  init_game_from(set(s1, s1.hero.position, empty_tile), k + 1)
             ELSE init_game_from(s, k + 1)

init_game(s) == init_game_from(s, 0)

\* the last GID of each declared tile type (restart_level's loop over gidmap)
GidsOf(tileset) ==
    LET types == {tileset[i] : i \in DOMAIN tileset}
    IN  [t \in types |->
            CHOOSE i \in DOMAIN tileset :
                /\ tileset[i] = t
                /\ \A j \in DOMAIN tileset : tileset[j] = t => j <= i]

\* Hero.__init__
NewHero == [position |-> Vector2(0, 0), velocity |-> <<0, 0>>]

\* Game.restart_level
restart_level(s) ==
    LET s1 == load_level(s, s.level)
        doc == s1.tmx_data[s1.map_data]
        s2 == [s1 EXCEPT !.level_width = doc.width,
                         !.level_height = doc.height,
                         !.gids = GidsOf(doc.tileset),
                         !.hero = NewHero]
    IN  init_game(s2)

\* Game.save_position leaving the hero marker in the live grid
save_position_keep_marker(s) ==
    LET s1 == set(s, s.hero.position, hero_tile)
    IN  IF s1.raised = "none" THEN [s1 EXCEPT !.saved = Live(s1)] ELSE s1

\* Game.save_position
save_position(s) ==
    LET s1 == set(s, s.hero.position, hero_tile)
        s2 == IF s1.raised = "none" THEN [s1 EXCEPT !.saved = Live(s1)] ELSE s1
    IN  set(s2, s2.hero.position, empty_tile)

\* Game.load_position
load_position(s) ==
    IF s.saved # NoFile
    THEN init_game(set_map(NewObject(s, s.saved), 0))
    ELSE s

\* Game.start_level
start_level(s) == save_position(restart_level(s))

\* Game.try_move that leaves the destination cell as it is
try_move_keep(s, delta) ==
    LET newpos == VAdd(s.hero.position, delta)
        block == get(s, newpos)
    IN  IF block # default_tile
        THEN <<s, TRUE>>
        ELSE <<s, FALSE>>

\* Game.try_move: <<new state, return value>>
try_move(s, delta) ==
    LET newpos == VAdd(s.hero.position, delta)
        block == get(s, newpos)
    IN  IF block # default_tile
        THEN <<set(s, newpos, empty_tile), TRUE>>
        ELSE <<s, FALSE>>

\* Game.finished that takes the default tile for a tile still to clear
RECURSIVE finished_nodefault(_, _)
finished_nodefault(s, k) ==
    IF k >= s.level_width * s.level_height THEN TRUE
    ELSE LET x == k \div s.level_height
             y == k % s.level_height
             block == get(s, Vector2(x, y))
         IN  IF block \notin {hero_tile, empty_tile} THEN FALSE
             ELSE finished_nodefault(s, k + 1)

\* Game.finished: scan with early return
RECURSIVE finished_from(_, _)
finished_from(s, k) ==
    IF k >= s.level_width * s.level_height THEN TRUE
    ELSE LET x == k \div s.level_height
             y == k % s.level_height
             block == get(s, Vector2(x, y))
         IN  IF block \notin {hero_tile, default_tile, empty_tile} THEN FALSE
             ELSE finished_from(s, k + 1)

finished(s) == finished_from(s, 0)

\* Game.__init__ followed by the level pre-loading loop of main()
RECURSIVE Preload(_, _)
Preload(s, l) ==
    IF l > num_levels THEN s
    ELSE Preload(load_level([s EXCEPT !.map_timestamp[l] = 0], l), l + 1)

NewGame ==
    [level |-> 1, quit |-> FALSE, moves |-> 0,
     tmx_data |-> [l \in Levels |-> <<>>],
     map_tiles |-> [l \in Levels |-> <<>>],
     map_timestamp |-> [l \in Levels |-> 0],
     fresh |-> <<>>, ref |-> 0, map_data |-> 1,
     level_width |-> 0, level_height |-> 0,
     gids |-> <<>>, hero |-> NewHero,
     saved |-> NoFile, raised |-> "none",
     files |-> FilesAtStart]

AfterMain == Preload(NewGame, 1)

\* ------------------------------------------------------------------------
\* main(): the levels directory
\* ------------------------------------------------------------------------

\* the code point of a character of a file name
Ord(c) ==
    CASE c = "." -> 46
      [] c = "0" -> 48 [] c = "1" -> 49 [] c = "2" -> 50 [] c = "3" -> 51
      [] c = "4" -> 52 [] c = "5" -> 53 [] c = "6" -> 54 [] c = "7" -> 55
      [] c = "8" -> 56 [] c = "9" -> 57
      [] c = "L" -> 76
      [] c = "l" -> 108 [] c = "m" -> 109 [] c = "t" -> 116 [] c = "x" -> 120

\* str.startswith
startswith(name, prefix) ==
    /\ Len(name) >= Len(prefix)
    /\ SubSeq(name, 1, Len(prefix)) = prefix

\* str.rfind('.'), as a 0-based index, -1 when there is no dot
rfind_dot(name) ==
    LET dots == {i \in 1..Len(name) : name[i] = "."}
    IN  IF dots = {} THEN -1
        ELSE (CHOOSE i \in dots : \A j \in dots : j <= i) - 1

\* PurePath.suffix: the last dot of the name and what follows it, unless
\* that dot is the first or the last character
suffix(name) ==
    LET i == rfind_dot(name)
    IN  IF 0 < i /\ i < Len(name) - 1
        THEN SubSeq(name, i + 1, Len(name))
        ELSE <<>>

\* PurePath.__lt__ for two entries of one directory: their names compared
\* character by character
RECURSIVE path_lt(_, _)
path_lt(a, b) ==
    IF b = <<>> THEN FALSE
    ELSE IF a = <<>> THEN TRUE
    ELSE IF Ord(a[1]) < Ord(b[1]) THEN TRUE
    ELSE IF Ord(a[1]) > Ord(b[1]) THEN FALSE
    ELSE path_lt(Tail(a), Tail(b))

\* sorted() ordering the names by their length first
RECURSIVE sorted_by_length(_)
sorted_by_length(names) ==
    IF names = {} THEN <<>>
    ELSE LET least == CHOOSE a \in names : \A b \in names \ {a} :
                          \/ Len(a) < Len(b)
                          \/ Len(a) = Len(b) /\ path_lt(a, b)
         IN  <<least>> \o sorted_by_length(names \ {least})

\* sorted() of a collection of paths of one directory
RECURSIVE sorted(_)
sorted(names) ==
    IF names = {} THEN <<>>
    ELSE LET least == CHOOSE a \in names : \A b \in names \ {a} : path_lt(a, b)
         IN  <<least>> \o sorted(names \ {least})

\* main(): the entries of the directory that are taken for level files
level_files_in(dir) ==
    {file.name : file \in {f \in dir.entries :
        /\ ~startswith(f.name, <<".">>)
        /\ f.is_file
        /\ suffix(f.name) = <<".", "t", "m", "x">>}}

\* die(): the message is printed and the process ends with a failure status
die == "died"

\* main(): self.levels_files, self.num_levels and where main() goes on:
\* iterdir() raises OSError on a directory that cannot be read
load_levels(dir) ==
    IF ~dir.readable
    THEN [levels_files |-> <<>>, num_levels |-> 0, pc |-> die]
    ELSE LET files == sorted(level_files_in(dir))
         IN  [levels_files |-> files, num_levels |-> Len(files),
              pc |-> IF Len(files) = 0 THEN die ELSE "title"]

tmx == <<".", "t", "m", "x">>

File(name) == [name |-> name, is_file |-> TRUE]

Directory(name) == [name |-> name, is_file |-> FALSE]

\* the levels directory of the game: its two levels and a hidden file
GameLevelsDir ==
    [readable |-> TRUE,
     entries |-> {File(<<"l", "1">> \o tmx), File(<<"l", "2">> \o tmx),
                  File(<<".", "l", "3">> \o tmx)}]

\* entries a levels directory is made of: level files, a hidden file, a
\* file that is no map, a directory named like a map
EntryPool ==
    {File(<<"l", "1">> \o tmx), File(<<"l", "1", "0">> \o tmx),
     File(<<"l", "2">> \o tmx), File(<<"L", "3">> \o tmx),
     File(<<".", "l", "4">> \o tmx), File(<<"l", "5", ".", "t", "x", "t">>),
     Directory(<<"l", "6">> \o tmx)}

\* number of levels of the large levels directory
BigLevels == 26

Digit(d) == <<"0", "1", "2", "3", "4", "5", "6", "7", "8", "9">>[d + 1]

\* a directory of BigLevels levels, 01.tmx, 02.tmx, ...
BigDir ==
    [readable |-> TRUE,
     entries |-> {File(<<Digit(i \div 10), Digit(i % 10)>> \o tmx) : i \in 1..BigLevels}]

LevelsDirs ==
    {[readable |-> TRUE, entries |-> e] : e \in SUBSET EntryPool}
    \cup {BigDir, [readable |-> FALSE, entries |-> {}]}

\* ------------------------------------------------------------------------
\* title_screen()
\* ------------------------------------------------------------------------

None == -1

\* Python's `level or d`: None and 0 are both false
PyOr(level, d) == IF level = None \/ level = 0 THEN d ELSE level

min(a, b) == IF a < b THEN a ELSE b

max(a, b) == IF a > b THEN a ELSE b

DIGIT_KEYS ==
    [k \in {"0", "1", "2", "3", "4", "5", "6", "7", "8", "9"} |->
        CASE k = "0" -> 0 [] k = "1" -> 1 [] k = "2" -> 2 [] k = "3" -> 3
          [] k = "4" -> 4 [] k = "5" -> 5 [] k = "6" -> 6 [] k = "7" -> 7
          [] k = "8" -> 8 [] k = "9" -> 9]

DecKeys == {"z", "LEFT", "SLASH", "DOWN"}

IncKeys == {"x", "RIGHT", "QUOTE", "UP"}

\* the digit keys pressed on the title screen
DigitsTried == {"0", "1", "2", "5"}

\* the events the title screen gets: keys, joystick buttons, and events of
\* other types (a moved joystick axis, a moved mouse)
TitleEvents ==
    {[type |-> "KEYDOWN", key |-> k] :
        k \in DecKeys \cup IncKeys \cup DigitsTried \cup {"q", "SPACE", "f", "a"}}
    \cup {[type |-> "JOYBUTTONDOWN", key |-> b] : b \in {"0", "1"}}
    \cup {[type |-> "JOYAXISMOTION", key |-> ""]}

\* what handle_joysticks reads while the title screen is shown: at rest,
\* along one axis, along both
TitleJoyAxes == {<<0, 0>>, <<1, 0>>, <<0, 1>>, <<-1, 1>>, <<1, 1>>}

\* title_screen(): level = None; play = False
NoTitle == [level |-> None, play |-> FALSE]

\* title_screen(): level = min(self.num_levels, (level or 0) * 10 + DIGIT_KEYS[event.key])
digit_key(level, d, n) == min(n, PyOr(level, 0) * 10 + d)

\* title_screen(): one event of the for loop, other than the Q key; joy is
\* what handle_joysticks returns, n is self.num_levels
title_event(t, event, joy, n) ==
    LET key_change ==
            IF event.type = "KEYDOWN"
            THEN IF event.key \in DecKeys THEN -1
                 ELSE IF event.key \in IncKeys THEN 1
                 ELSE 0
            ELSE 0
        play1 ==
            IF event.type = "KEYDOWN" THEN event.key = "SPACE" \/ t.play
            ELSE IF event.type = "JOYBUTTONDOWN" THEN event.key = "0" \/ t.play
            ELSE t.play
        level1 ==
            IF event.type = "KEYDOWN"
            THEN IF event.key = "SPACE" \/ event.key \in DecKeys \cup IncKeys
                 THEN t.level
                 ELSE IF event.key \in DOMAIN DIGIT_KEYS
                 THEN digit_key(t.level, DIGIT_KEYS[event.key], n)
                 ELSE None
            ELSE t.level
        level_change == key_change + joy[1] - joy[2]
        level2 ==
            IF level_change # 0
            THEN max(1, min(n, PyOr(level1, 1) + level_change))
            ELSE level1
    IN  [level |-> level2, play |-> play1]

\* title_screen(): the number printed after "Start level: ":
\* 1 if level is None else level
start_level_shown(level) == IF level = None THEN 1 ELSE level

\* title_screen() returning the pending level as it is
title_return_raw(level, n) == IF level = None THEN 0 ELSE level

\* title_screen(): return max(min(level or 1, self.num_levels), 1)
title_return(level, n) == max(min(PyOr(level, 1), n), 1)

\* the effects of end_level() and win_game() last this many frames
frames_per_second == 60

\* ------------------------------------------------------------------------
\* State
\* ------------------------------------------------------------------------

VARIABLES
    game,     \* the Game object
    pc,       \* where the program is
    frame,    \* run(): frame
    moving,   \* run(): moving
    op,       \* the last call made: name, arguments and return value
    calls,    \* number of calls made so far
    keys,     \* number of load, save and restart events handled in this run
    want,     \* run(): (dx, dy), the move the player asks for in this tick
    tried,    \* the displacements try_move was called with in this tick
    move,     \* the move being animated: where and when it started
    title,    \* title_screen(): level and play
    quit_event, \* a pygame.QUIT event waits in the event queue
    levels_dir, \* the levels directory main() is given
    found,    \* main(): self.levels_files and self.num_levels
    effect,   \* end_level() and win_game(): frames of the effect played
    hist      \* calls of win_game() and end_game() made by the current run()

vars == <<game, pc, frame, moving, op, calls, keys, want, tried, move,
         title, quit_event, levels_dir, found, effect, hist>>

\* rep is 2 when the same call was made just before, else 1
Call(name, pos, tile, ret) ==
    [name |-> name, pos |-> pos, tile |-> tile, ret |-> ret,
     rep |-> IF op.name = name /\ op.pos = pos /\ op.tile = tile
             THEN 2 ELSE 1]

NoMove == [active |-> FALSE, from |-> <<0, 0>>, dir |-> <<0, 0>>,
           ticks |-> 0, disturbed |-> FALSE]

NoCall == [name |-> "none", pos |-> <<0, 0>>, tile |-> "", ret |-> FALSE, rep |-> 0]

\* calls of win_game() and end_game() made by the current run()
NoHist == [win_game |-> 0, end_game |-> 0]

\* ------------------------------------------------------------------------
\* The methods of a Game whose level has been started, called in any
\* order (as the hooks of a derived game may call them)
\* ------------------------------------------------------------------------

\* positions handed to get and set: cells, fractional positions inside
\* cells, and positions off each edge of the map
Positions ==
    {<<4, 0>>, <<8, 8>>, <<16, 0>>,
     <<-8, 0>>, <<-4, 0>>, <<0, -4>>, <<24, 0>>, <<0, 16>>}

\* number of calls made on one Game
MaxCalls == 3

Deltas == {Vector2(1, 0), Vector2(-1, 0), Vector2(0, 1), Vector2(0, -1)}

InitAPI ==
    /\ \E l \in Levels : game = start_level([AfterMain EXCEPT !.level = l])
    /\ pc = "api"
    /\ frame = 0
    /\ moving = FALSE
    /\ op = NoCall
    /\ calls = 0
    /\ keys = 0
    /\ want = <<0, 0>>
    /\ tried = <<>>
    /\ move = NoMove
    /\ title = NoTitle
    /\ quit_event = FALSE
    /\ levels_dir = GameLevelsDir
    /\ found = [levels_files |-> load_levels(GameLevelsDir).levels_files,
                num_levels |-> load_levels(GameLevelsDir).num_levels]
    /\ effect = 0
    /\ hist = NoHist

\* the caller catches what the previous call raised
Caught == [game EXCEPT !.raised = "none"]

Get(pos) ==
    /\ pc = "api" /\ calls < MaxCalls
    /\ calls' = calls + 1
    /\ op' = Call("get", pos, "", get(Caught, pos))
    /\ game' = Caught
    /\ UNCHANGED <<pc, frame, moving, keys, want, tried, move,
                   title, quit_event, levels_dir, found, effect, hist>>

Set(pos, tile) ==
    /\ pc = "api" /\ calls < MaxCalls
    /\ calls' = calls + 1
    /\ game' = set(Caught, pos, tile)
    /\ op' = Call("set", pos, tile, FALSE)
    /\ UNCHANGED <<pc, frame, moving, keys, want, tried, move,
                   title, quit_event, levels_dir, found, effect, hist>>

TryMove(delta) ==
    /\ pc = "api" /\ calls < MaxCalls
    /\ calls' = calls + 1
    /\ game' = try_move(Caught, delta)[1]
    /\ op' = Call("try_move", delta, "", try_move(Caught, delta)[2])
    /\ UNCHANGED <<pc, frame, moving, keys, want, tried, move,
                   title, quit_event, levels_dir, found, effect, hist>>

SavePosition ==
    /\ pc = "api" /\ calls < MaxCalls
    /\ calls' = calls + 1
    /\ game' = save_position(Caught)
    /\ op' = Call("save_position", <<0, 0>>, "", FALSE)
    /\ UNCHANGED <<pc, frame, moving, keys, want, tried, move,
                   title, quit_event, levels_dir, found, effect, hist>>

LoadPosition ==
    /\ pc = "api" /\ calls < MaxCalls
    /\ calls' = calls + 1
    /\ game' = load_position(Caught)
    /\ op' = Call("load_position", <<0, 0>>, "", FALSE)
    /\ UNCHANGED <<pc, frame, moving, keys, want, tried, move,
                   title, quit_event, levels_dir, found, effect, hist>>

RestartLevel ==
    /\ pc = "api" /\ calls < MaxCalls
    /\ calls' = calls + 1
    /\ game' = restart_level(Caught)
    /\ op' = Call("restart_level", <<0, 0>>, "", FALSE)
    /\ UNCHANGED <<pc, frame, moving, keys, want, tried, move,
                   title, quit_event, levels_dir, found, effect, hist>>

Finished ==
    /\ pc = "api" /\ calls < MaxCalls
    /\ calls' = calls + 1
    /\ op' = Call("finished", <<0, 0>>, "", finished(Caught))
    /\ game' = Caught
    /\ UNCHANGED <<pc, frame, moving, keys, want, tried, move,
                   title, quit_event, levels_dir, found, effect, hist>>

NextAPI ==
    \/ \E pos \in Positions : Get(pos)
    \/ \E pos \in Positions, tile \in Tile : Set(pos, tile)
    \/ \E delta \in Deltas : TryMove(delta)
    \/ SavePosition
    \/ LoadPosition
    \/ RestartLevel
    \/ Finished

SpecAPI == InitAPI /\ [][NextAPI]_vars

\* ------------------------------------------------------------------------
\* The program: main()'s loop of title_screen and run(level)
\* ------------------------------------------------------------------------

\* load, save and restart events handled in one run
MaxKeys == 2

\* moves started in one attempt at a level
MaxMoves == 1

\* the events handle_game_keys reacts to
KeyEvents ==
    {[type |-> "KEYDOWN", key |-> k] : k \in {"l", "s", "r", "q", "f"}}
    \cup {[type |-> "JOYBUTTONDOWN", key |-> b] : b \in {"0", "1", "3"}}

DirKeys == {"LEFT", "RIGHT", "UP", "DOWN"}

\* the direction keys held down in one tick: up to two at a time
Pressed == {p \in SUBSET DirKeys : Cardinality(p) <= 2}

\* what handle_joysticks reads from the plugged-in joysticks
JoyAxes == {<<0, 0>>, <<-1, 1>>}

\* Game.handle_player_controls
handle_player_controls(pressed, joy) ==
    LET dx0 == 0
        dy0 == 0
        dx1 == IF "LEFT" \in pressed THEN dx0 - 1 ELSE dx0
        dx2 == IF "RIGHT" \in pressed THEN dx1 + 1 ELSE dx1
        dy1 == IF "UP" \in pressed THEN dy0 - 1 ELSE dy0
        dy2 == IF "DOWN" \in pressed THEN dy1 + 1 ELSE dy1
    IN  IF joy # <<0, 0>> THEN joy ELSE <<dx2, dy2>>

\* Game.handle_game_keys.  The flash_background() that goes with a load,
\* save or restart changes the background colour only, which is not part of
\* this record.
handle_game_keys(s, event) ==
    LET load_pressed ==
            IF event.type = "KEYDOWN" THEN event.key = "l"
            ELSE IF event.type = "JOYBUTTONDOWN" THEN event.key = "1"
            ELSE FALSE
        save_pressed ==
            IF event.type = "KEYDOWN" THEN event.key = "s"
            ELSE IF event.type = "JOYBUTTONDOWN" THEN event.key = "0"
            ELSE FALSE
        restart_pressed ==
            IF event.type = "KEYDOWN" THEN event.key = "r"
            ELSE IF event.type = "JOYBUTTONDOWN" THEN event.key = "3"
            ELSE FALSE
        s1 == IF load_pressed THEN load_position(s)
              ELSE IF save_pressed THEN save_position(s)
              ELSE s
        s2 == IF restart_pressed THEN restart_level(s1) ELSE s1
    IN  IF event.type = "KEYDOWN" /\ event.key = "q"
        THEN [s2 EXCEPT !.quit = TRUE]
        ELSE s2

\* the method an event makes handle_game_keys call
Invokes(event) ==
    IF event.type = "KEYDOWN"
    THEN CASE event.key = "l" -> "load_position"
           [] event.key = "s" -> "save_position"
           [] event.key = "r" -> "restart_level"
           [] event.key = "q" -> "quit"
           [] OTHER -> "none"
    ELSE CASE event.key = "1" -> "load_position"
           [] event.key = "0" -> "save_position"
           [] event.key = "3" -> "restart_level"
           [] OTHER -> "none"

\* Hero.update moving a whole cell whatever dt is
update_whole_cell(hero, dt) ==
    [hero EXCEPT !.position = <<hero.position[1] + hero.velocity[1] * frames,
                                hero.position[2] + hero.velocity[2] * frames>>]

\* Hero.update; dt is in eighths, so velocity * dt is in eighths of a cell
update(hero, dt) ==
    [hero EXCEPT !.position = <<hero.position[1] + hero.velocity[1] * dt,
                                hero.position[2] + hero.velocity[2] * dt>>]

\* the move attempt of run() with the vertical move tried first
start_move_vertical_first(s, dx, dy) ==
    LET v == try_move(s, Vector2(0, dy))
        h == try_move(s, Vector2(dx, 0))
    IN  IF dy # 0 /\ v[2]
        THEN [game |-> v[1], allowed_move |-> <<0, dy>>,
              tried |-> <<Vector2(0, dy)>>]
        ELSE IF dx # 0 /\ h[2]
        THEN [game |-> h[1], allowed_move |-> <<dx, 0>>,
              tried |-> (IF dy # 0 THEN <<Vector2(0, dy)>> ELSE <<>>)
                            \o <<Vector2(dx, 0)>>]
        ELSE [game |-> s, allowed_move |-> <<0, 0>>,
              tried |-> (IF dy # 0 THEN <<Vector2(0, dy)>> ELSE <<>>)
                            \o (IF dx # 0 THEN <<Vector2(dx, 0)>> ELSE <<>>)]

\* run(): the move attempt:
\*   if dx != 0 and self.try_move(Vector2(dx, 0)): allowed_move = (dx, 0)
\*   elif dy != 0 and self.try_move(Vector2(0, dy)): allowed_move = (0, dy)
\* tried lists the displacements try_move was called with
start_move(s, dx, dy) ==
    LET h == try_move(s, Vector2(dx, 0))
        v == try_move(s, Vector2(0, dy))
    IN  IF dx # 0 /\ h[2]
        THEN [game |-> h[1], allowed_move |-> <<dx, 0>>,
              tried |-> <<Vector2(dx, 0)>>]
        ELSE IF dy # 0 /\ v[2]
        THEN [game |-> v[1], allowed_move |-> <<0, dy>>,
              tried |-> (IF dx # 0 THEN <<Vector2(dx, 0)>> ELSE <<>>)
                            \o <<Vector2(0, dy)>>]
        ELSE [game |-> s, allowed_move |-> <<0, 0>>,
              tried |-> (IF dx # 0 THEN <<Vector2(dx, 0)>> ELSE <<>>)
                            \o (IF dy # 0 THEN <<Vector2(0, dy)>> ELSE <<>>)]

\* run(): the test of the tick loop without the wait for the move's end
tick_loop_test_early(s, f, m) == ~s.quit /\ ~finished(s)

\* run(): while not self.quit and not (self.finished() and (frame == 0 or
\* not moving))
tick_loop_test(s, f, m) == ~s.quit /\ ~(finished(s) /\ (f = 0 \/ ~m))

\* run(): while not self.quit and self.level <= self.num_levels
run_loop_test(s) == ~s.quit /\ s.level <= num_levels

\* end_level() playing its effect for every level
end_level_skipped_never(s) == FALSE

\* end_level(): if self.level == self.num_levels: return
end_level_skipped(s) == s.level = num_levels

\* run(): win_game() played whenever the loop is left
win_game_due_always(s) == TRUE

\* run(): if self.level > self.num_levels: self.win_game()
win_game_due(s) == s.level > num_levels

Init ==
    /\ game = AfterMain
    /\ pc = "title"
    /\ frame = 0
    /\ moving = FALSE
    /\ op = NoCall
    /\ calls = 0
    /\ keys = 0
    /\ want = <<0, 0>>
    /\ tried = <<>>
    /\ move = NoMove
    /\ title = NoTitle
    /\ quit_event = FALSE
    /\ levels_dir = GameLevelsDir
    /\ found = [levels_files |-> load_levels(GameLevelsDir).levels_files,
                num_levels |-> load_levels(GameLevelsDir).num_levels]
    /\ effect = 0
    /\ hist = NoHist

\* main() before its level loading, with any levels directory
InitMain ==
    /\ game = NewGame
    /\ pc = "main"
    /\ frame = 0
    /\ moving = FALSE
    /\ op = NoCall
    /\ calls = 0
    /\ keys = 0
    /\ want = <<0, 0>>
    /\ tried = <<>>
    /\ move = NoMove
    /\ title = NoTitle
    /\ quit_event = FALSE
    /\ levels_dir \in LevelsDirs
    /\ found = [levels_files |-> <<>>, num_levels |-> 0]
    /\ effect = 0
    /\ hist = NoHist

\* quit_game() or die(): the process, and every object of it, is gone
Terminate(how, name) ==
    /\ pc' = how
    /\ op' = [NoCall EXCEPT !.name = name]
    /\ game' = NewGame
    /\ frame' = 0
    /\ moving' = FALSE
    /\ keys' = 0
    /\ want' = <<0, 0>>
    /\ tried' = <<>>
    /\ move' = NoMove
    /\ title' = NoTitle
    /\ quit_event' = FALSE
    /\ effect' = 0
    /\ hist' = NoHist
    /\ UNCHANGED <<calls, levels_dir, found>>

\* main(): the levels are looked for and loaded; the title screen follows
LoadLevels ==
    /\ pc = "main"
    /\ LET r == load_levels(levels_dir)
       IN  IF r.pc = die
           THEN /\ Terminate(die, "die")
           ELSE /\ found' = [levels_files |-> r.levels_files,
                             num_levels |-> r.num_levels]
                /\ pc' = r.pc
                /\ op' = Call("load_level", <<0, 0>>, "", FALSE)
                /\ game' = IF levels_dir = GameLevelsDir THEN AfterMain ELSE game
                /\ UNCHANGED <<frame, moving, calls, keys, want, tried, move,
                               title, quit_event, levels_dir, effect, hist>>

\* the window's close control is used: a pygame.QUIT event joins the event
\* queue.  The program looks at the queue only where a loop polls it, so an
\* event posted anywhere between two polls is one posted before the second.
PostQuit ==
    /\ pc \in {"title", "tick", "end_level", "win_game"}
    /\ ~quit_event
    /\ quit_event' = TRUE
    /\ UNCHANGED <<game, pc, frame, moving, op, calls, keys, want, tried, move,
                   title, levels_dir, found, effect, hist>>

\* main(): except KeyboardInterrupt: quit_game()
Interrupt ==
    /\ pc \notin {"main", "exited", die}
    /\ Terminate("exited", "KeyboardInterrupt")

\* title_screen(): the screen is drawn, then handle_quit_event(), then
\* pygame.event.get() fetches the events for the loop that follows.  posted
\* tells that a pygame.QUIT event arrived between the two calls: it is
\* fetched with the others, and the loop has no case for it.
TitleFrame(posted) ==
    /\ pc = "title"
    /\ IF quit_event
       THEN Terminate("exited", "quit_game")
       ELSE /\ pc' = "title_events"
            /\ op' = [NoCall EXCEPT !.name = "pygame.event.get", !.ret = posted]
            /\ UNCHANGED <<game, frame, moving, calls, keys, want, tried, move,
                           title, quit_event, levels_dir, found, effect, hist>>

\* title_screen(): one event of the for loop
TitleEvent(event, joy) ==
    /\ pc = "title_events"
    /\ IF event.type = "KEYDOWN" /\ event.key = "q"
       THEN Terminate("exited", "quit_game")
       ELSE /\ title' = title_event(title, event, joy, found.num_levels)
            /\ op' = [NoCall EXCEPT !.name = "title_event"]
            /\ UNCHANGED <<game, pc, frame, moving, calls, keys, want, tried, move,
                           quit_event, levels_dir, found, effect, hist>>

\* title_screen(): clock.tick(), and the loop ends once play is set;
\* main() then calls run(level): self.quit = False; self.level = level
TitleTick ==
    /\ pc = "title_events"
    /\ IF title.play
       THEN /\ game' = [game EXCEPT
                           !.quit = FALSE,
                           !.level = title_return(title.level, found.num_levels)]
            /\ pc' = "run"
            /\ op' = [NoCall EXCEPT !.name = "title_screen"]
            /\ title' = NoTitle
            /\ keys' = 0
            /\ hist' = NoHist
       ELSE /\ pc' = "title"
            /\ op' = [NoCall EXCEPT !.name = "clock.tick"]
            /\ UNCHANGED <<game, title, keys, hist>>
    /\ UNCHANGED <<frame, moving, calls, want, tried, move,
                   quit_event, levels_dir, found, effect>>

\* run(): while not self.quit and self.level <= self.num_levels; after the
\* loop, if self.level > self.num_levels: self.win_game()
RunLoop ==
    /\ pc = "run"
    /\ IF run_loop_test(game)
       THEN /\ game' = start_level(game)
            /\ pc' = "attempt"
            /\ op' = Call("start_level", <<0, 0>>, "", FALSE)
       ELSE /\ game' = game
            /\ pc' = IF win_game_due(game) THEN "win_game" ELSE "end_game"
            /\ op' = Call("none", <<0, 0>>, "", FALSE)
    /\ UNCHANGED <<frame, moving, calls, keys, want, tried, move,
                   title, quit_event, levels_dir, found, effect, hist>>

\* win_game(): one frame of the effect, for i in range(self.frames_per_second);
\* then pygame.time.wait(2000)
WinGame ==
    /\ pc = "win_game"
    /\ IF effect < frames_per_second
       THEN /\ effect' = effect + 1
            /\ op' = Call("show_screen", <<0, 0>>, "", FALSE)
            /\ UNCHANGED <<pc, hist>>
       ELSE /\ effect' = 0
            /\ hist' = [hist EXCEPT !.win_game = hist.win_game + 1]
            /\ op' = Call("win_game", <<0, 0>>, "", FALSE)
            /\ pc' = "end_game"
    /\ UNCHANGED <<game, frame, moving, calls, keys, want, tried, move,
                   title, quit_event, levels_dir, found>>

\* run() ending the process once end_game() has been called
EndGameAndExit ==
    /\ pc = "end_game"
    /\ Terminate("exited", "quit_game")

\* run(): self.end_game(), and run() returns: its frame and moving are
\* gone; main() calls title_screen(): level = None; play = False
EndGame ==
    /\ pc = "end_game"
    /\ hist' = [hist EXCEPT !.end_game = hist.end_game + 1]
    /\ op' = [NoCall EXCEPT !.name = "end_game"]
    /\ title' = NoTitle
    /\ frame' = 0
    /\ moving' = FALSE
    /\ keys' = 0
    /\ pc' = "title"
    /\ UNCHANGED <<game, calls, want, tried, move,
                   quit_event, levels_dir, found, effect>>

\* run(): while not self.quit and not self.finished()
AttemptLoop ==
    /\ pc = "attempt"
    /\ IF ~game.quit /\ ~finished(game)
       THEN /\ game' = [load_position(game) EXCEPT !.moves = 0,
                                                   !.hero.velocity = <<0, 0>>]
            /\ frame' = 0
            /\ moving' = FALSE
            /\ pc' = "tick"
            /\ op' = Call("load_position", <<0, 0>>, "", FALSE)
       ELSE /\ pc' = "level_end"
            /\ op' = Call("none", <<0, 0>>, "", FALSE)
            /\ UNCHANGED <<game, frame, moving>>
    /\ move' = NoMove
    /\ UNCHANGED <<calls, keys, want, tried,
                   title, quit_event, levels_dir, found, effect, hist>>

\* run(): if self.finished(): self.end_level(); self.level += 1
\* end_level() returns at once on the last level
LevelEnd ==
    /\ pc = "level_end"
    /\ IF finished(game)
       THEN IF end_level_skipped(game)
            THEN /\ game' = [game EXCEPT !.level = game.level + 1]
                 /\ pc' = "run"
                 /\ op' = Call("end_level", <<0, 0>>, "", FALSE)
            ELSE /\ pc' = "end_level"
                 /\ op' = Call("end_level", <<0, 0>>, "", FALSE)
                 /\ game' = game
       ELSE /\ pc' = "run"
            /\ op' = Call("none", <<0, 0>>, "", FALSE)
            /\ game' = game
    /\ UNCHANGED <<frame, moving, calls, keys, want, tried, move,
                   title, quit_event, levels_dir, found, effect, hist>>

\* end_level(): one frame of the effect, for i in range(self.frames_per_second);
\* then run() goes on: self.level += 1
EndLevel ==
    /\ pc = "end_level"
    /\ IF effect < frames_per_second
       THEN /\ effect' = effect + 1
            /\ op' = Call("show_screen", <<0, 0>>, "", FALSE)
            /\ UNCHANGED <<game, pc>>
       ELSE /\ effect' = 0
            /\ game' = [game EXCEPT !.level = game.level + 1]
            /\ op' = Call("none", <<0, 0>>, "", FALSE)
            /\ pc' = "run"
    /\ UNCHANGED <<frame, moving, calls, keys, want, tried, move,
                   title, quit_event, levels_dir, found, hist>>

\* run(): the test of the tick loop; leaving the loop calls stop_play()
TickLoop ==
    /\ pc = "tick"
    /\ IF tick_loop_test(game, frame, moving)
       THEN pc' = "events"
       ELSE pc' = "attempt"
    /\ op' = Call("clock.tick", <<0, 0>>, "", FALSE)
    /\ move' = IF move.active /\ ~moving THEN NoMove ELSE move
    /\ UNCHANGED <<game, frame, moving, calls, keys, want, tried,
                   title, quit_event, levels_dir, found, effect, hist>>

\* run(): one KEYDOWN or JOYBUTTONDOWN event of pygame.event.get()
HandleEvent(event) ==
    /\ pc = "events"
    /\ Invokes(event) \in {"load_position", "save_position", "restart_level"}
          => keys < MaxKeys
    /\ keys' = IF Invokes(event) \in {"load_position", "save_position", "restart_level"}
               THEN keys + 1 ELSE keys
    /\ game' = handle_game_keys(game, event)
    /\ op' = Call(Invokes(event), <<0, 0>>, "", FALSE)
    /\ move' = IF move.active /\ Invokes(event) \in {"load_position", "restart_level"}
               THEN [move EXCEPT !.disturbed = TRUE] ELSE move
    /\ UNCHANGED <<pc, frame, moving, calls, want, tried,
                   title, quit_event, levels_dir, found, effect, hist>>

\* run(): the pygame.QUIT event of pygame.event.get(): quit_game()
WindowClose ==
    /\ pc = "events"
    /\ quit_event
    /\ Terminate("exited", "quit_game")

\* run(): the events are done; (dx, dy) = self.handle_player_controls();
\* if the hero is not moving already, try to start a new move, horizontally
\* first.  want keeps (dx, dy) when the hero is idle, the only case the
\* code looks at it.
Controls(pressed, joy) ==
    /\ pc = "events"
    /\ ~quit_event
    /\ LET dxdy == handle_player_controls(pressed, joy)
       IN  IF ~moving /\ dxdy # <<0, 0>>
           THEN LET r == start_move(game, dxdy[1], dxdy[2])
                IN  /\ game.moves < MaxMoves
                    /\ want' = dxdy
                    /\ tried' = r.tried
                    /\ IF r.allowed_move # <<0, 0>>
                       THEN /\ game' = [r.game EXCEPT !.hero.velocity = r.allowed_move,
                                                      !.moves = game.moves + 1]
                            /\ frame' = 0
                            /\ moving' = TRUE
                            /\ move' = [active |-> TRUE, from |-> game.hero.position,
                                        dir |-> r.allowed_move, ticks |-> 0,
                                        disturbed |-> FALSE]
                       ELSE /\ game' = r.game
                            /\ UNCHANGED <<frame, moving, move>>
           ELSE /\ tried' = <<>>
                /\ want' = <<0, 0>>
                /\ UNCHANGED <<game, frame, moving, move>>
    /\ op' = Call("handle_player_controls", <<0, 0>>, "", FALSE)
    /\ pc' = "animate"
    /\ UNCHANGED <<calls, keys,
                   title, quit_event, levels_dir, found, effect, hist>>

\* run() with the physics hook run before the animation step: the tick goes
\* on to the drawing, and the hero is moved there
AnimateAfterHook ==
    /\ pc = "animate"
    /\ frame' = (frame + 1) % frames
    /\ move' = IF move.active THEN [move EXCEPT !.ticks = move.ticks + 1] ELSE move
    /\ tried' = <<>>
    /\ want' = <<0, 0>>
    /\ pc' = "wrap"
    /\ UNCHANGED <<game, moving, op, calls, keys,
                   title, quit_event, levels_dir, found, effect, hist>>

\* run(): frame = (frame + 1) % self.frames; self._group.update(1 / self.frames)
Animate ==
    /\ pc = "animate"
    /\ frame' = (frame + 1) % frames
    /\ game' = [game EXCEPT !.hero = update(game.hero, 1)]
    /\ move' = IF move.active THEN [move EXCEPT !.ticks = move.ticks + 1] ELSE move
    /\ tried' = <<>>
    /\ want' = <<0, 0>>
    /\ pc' = "wrap"
    /\ UNCHANGED <<moving, op, calls, keys,
                   title, quit_event, levels_dir, found, effect, hist>>

\* run() running update_map() only when a move ends
frame_wrapped_in_move(f, m) == f = 0 /\ m

\* run(): if frame == 0
frame_wrapped(f, m) == f = 0

\* run(): if frame == 0: update_map(); velocity = 0; moving = False
\* op keeps what update_map() finds when it is called: the hero's velocity
\* and the moving flag
Wrap ==
    /\ pc = "wrap"
    /\ IF frame_wrapped(frame, moving)
       THEN /\ game' = [game EXCEPT !.hero.velocity = <<0, 0>>]
            /\ moving' = FALSE
            /\ op' = Call("update_map", game.hero.velocity, "", moving)
       ELSE UNCHANGED <<game, moving, op>>
    /\ pc' = "draw"
    /\ UNCHANGED <<frame, calls, keys, want, tried, move,
                   title, quit_event, levels_dir, found, effect, hist>>

\* run(): self.draw(); self.show_status(); self.show_screen()
Draw ==
    /\ pc = "draw"
    /\ pc' = "tick"
    /\ op' = Call("show_screen", <<0, 0>>, "", FALSE)
    /\ UNCHANGED <<game, frame, moving, calls, keys, want, tried, move,
                   title, quit_event, levels_dir, found, effect, hist>>

Next ==
    \/ PostQuit
    \/ Interrupt
    \/ \E posted \in BOOLEAN : TitleFrame(posted)
    \/ \E event \in TitleEvents, joy \in TitleJoyAxes : TitleEvent(event, joy)
    \/ TitleTick
    \/ RunLoop
    \/ WinGame
    \/ EndGame
    \/ AttemptLoop
    \/ LevelEnd
    \/ EndLevel
    \/ TickLoop
    \/ \E event \in KeyEvents : HandleEvent(event)
    \/ WindowClose
    \/ \E pressed \in Pressed, joy \in JoyAxes : Controls(pressed, joy)
    \/ Animate
    \/ Wrap
    \/ Draw

Spec == Init /\ [][Next]_vars

\* main() from its level loading to the first return of title_screen()
NextMain ==
    \/ LoadLevels
    \/ PostQuit
    \/ Interrupt
    \/ \E posted \in BOOLEAN : TitleFrame(posted)
    \/ \E event \in TitleEvents, joy \in TitleJoyAxes : TitleEvent(event, joy)
    \/ TitleTick

SpecMain == InitMain /\ [][NextMain]_vars

\* ------------------------------------------------------------------------
\* Properties of the grid methods (checked under SpecAPI)
\* ------------------------------------------------------------------------

\* the position lies outside [0, level_width) x [0, level_height)
Outside(s, pos) ==
    \/ pos[1] < 0 \/ pos[1] >= s.level_width * frames
    \/ pos[2] < 0 \/ pos[2] >= s.level_height * frames

Cells(s) == {<<x, y>> : x \in 0..(s.level_width - 1), y \in 0..(s.level_height - 1)}

CellAt(grid, c) == grid[c[2] + 1][c[1] + 1]

CellOf(pos) == <<int(pos[1]), int(pos[2])>>

\* C1: get(pos) returns default_tile for every position, fractional ones
\* included, that has a negative coordinate or a coordinate >= the level's
\* width / height.
C1_GetOutsideIsDefault ==
    (op.name = "get" /\ Outside(game, op.pos)) => op.ret = default_tile

\* C2: set(pos, tile) with pos outside the map does not raise and leaves
\* every in-bounds cell of the live grid unchanged.
C2_SetOutsideIsNoOp ==
    [][(op'.name = "set" /\ Outside(game, op'.pos))
        => (game'.raised = "none" /\ Live(game') = Live(game))]_vars

\* C3: for an in-bounds position p and a tile t of the level's GID map,
\* set(p, t) leaves get(p) = t and every other cell unchanged, and the same
\* call made again changes nothing.
C3_SetTwice ==
    [][(/\ op'.name = "set"
        /\ ~Outside(game, op'.pos)
        /\ op'.tile \in DOMAIN game.gids)
        => (/\ game'.raised = "none"
            /\ get(game', op'.pos) = op'.tile
            /\ \A c \in Cells(game) :
                   c # CellOf(op'.pos) => CellAt(Live(game'), c) = CellAt(Live(game), c)
            /\ op'.rep >= 2 => Live(game') = Live(game))]_vars

\* a second identical set of a tile other than empty has been made
C3_Witness ==
    /\ op.name = "set" /\ op.rep = 2 /\ op.tile # empty_tile
    /\ ~Outside(game, op.pos) /\ op.tile \in DOMAIN game.gids
    /\ get(game, op.pos) = op.tile

\* the grid of level l as authored, with the hero marker replaced by the
\* empty tile of the level's tileset
Authored(l) ==
    LET f == levels_files[l]
        e == CHOOSE i \in DOMAIN f.tileset : f.tileset[i] = EMPTY
    IN  [y \in DOMAIN f.data |->
            [x \in DOMAIN f.data[y] |->
                IF f.data[y][x] # 0 /\ f.tileset[f.data[y][x]] = HERO
                THEN e ELSE f.data[y][x]]]

\* C6: the cached grid of every level stays the grid parsed from its file,
\* the live grid is never the cached object, and restart_level always
\* yields the authored grid with the hero marker consumed.
C6_CacheIsolation ==
    /\ \A l \in Levels : game.map_tiles[l] = levels_files[l].data
    /\ game.ref \notin Levels
    /\ op.name = "restart_level" => Live(game) = Authored(game.level)

\* a restart made after the grid was changed and the change saved
C6_Witness ==
    /\ op.name = "restart_level"
    /\ game.saved # levels_files[game.level].data
    /\ Live(game) = Authored(game.level)

\* C7: finished() is TRUE exactly when every in-bounds cell reads as the
\* hero, default or empty tile.
C7_Finished ==
    op.name = "finished" =>
        (op.ret <=> \A c \in Cells(game) :
                       get(game, Vector2(c[1], c[2])) \in {hero_tile, default_tile, empty_tile})

\* finished() returned TRUE on a level that holds a default tile
C7_Witness ==
    /\ op.name = "finished" /\ op.ret
    /\ \E c \in Cells(game) : get(game, Vector2(c[1], c[2])) = default_tile

\* C8: try_move(delta) returns TRUE iff the destination does not read as
\* default_tile; on TRUE the destination cell becomes empty and no other
\* cell changes, on FALSE the grid is unchanged; the hero is not moved.
C8_TryMove ==
    [][op'.name = "try_move" =>
        LET newpos == VAdd(game.hero.position, op'.pos)
        IN  /\ op'.ret <=> (get(game, newpos) # default_tile)
            /\ op'.ret =>
                  /\ get(game', newpos) = empty_tile
                  /\ \A c \in Cells(game) :
                        c # CellOf(newpos) => CellAt(Live(game'), c) = CellAt(Live(game), c)
            /\ ~op'.ret => Live(game') = Live(game)
            /\ game'.hero.position = game.hero.position]_vars

\* a move onto a jewel was allowed and the jewel is gone
C8_Witness ==
    /\ op.name = "try_move" /\ op.ret
    /\ get(game, VAdd(game.hero.position, op.pos)) = empty_tile
    /\ ~finished(game)

\* ------------------------------------------------------------------------
\* Properties of play (checked under Spec)
\* ------------------------------------------------------------------------

\* C4: in any state reachable during play, save_position() followed by
\* load_position() gives back the live grid as it was before the save and
\* the hero on the same cell; load_position() directly after start_level()
\* changes neither the grid nor the hero position.
C4_SaveLoadRoundTrip ==
    /\ pc = "events" =>
          LET s == load_position(save_position(game))
          IN  /\ Live(s) = Live(game)
              /\ s.hero.position = Vector2(CellOf(game.hero.position)[1],
                                            CellOf(game.hero.position)[2])
    /\ (pc = "attempt" /\ op.name = "start_level") =>
          /\ Live(load_position(game)) = Live(game)
          /\ load_position(game).hero.position = game.hero.position

\* C5: save_position() has no net effect on the live grid, whether called
\* by start_level or for a save event at any tick.
C5_SaveLeavesGrid ==
    [][/\ op'.name = "save_position" => Live(game') = Live(game)
       /\ op'.name = "start_level" => Live(game') = Live(restart_level(game))]_vars

\* a move is legal for the default try_move
Legal(s, delta) == get(s, VAdd(s.hero.position, delta)) # default_tile

\* C9: when the hero is idle and both dx and dy are requested, the
\* horizontal move is tried first; if it is legal the vertical move is not
\* tried and the velocity becomes (dx, 0); the vertical move is tried only
\* if the horizontal one is refused.  The velocity never has two non-zero
\* components.
C9_OneAxisPerMove ==
    /\ [][(pc = "events" /\ pc' = "animate" /\ ~moving
               /\ want'[1] # 0 /\ want'[2] # 0) =>
            /\ tried'[1] = Vector2(want'[1], 0)
            /\ Legal(game, Vector2(want'[1], 0)) =>
                  /\ tried' = <<Vector2(want'[1], 0)>>
                  /\ game'.hero.velocity = <<want'[1], 0>>
            /\ Len(tried') = 2 =>
                  /\ ~Legal(game, Vector2(want'[1], 0))
                  /\ tried'[2] = Vector2(0, want'[2])]_vars
    /\ [](game.hero.velocity[1] = 0 \/ game.hero.velocity[2] = 0)

\* both axes were asked for, both were legal, and the hero moves
\* horizontally
C9_Witness ==
    /\ pc = "animate" /\ moving /\ frame = 0
    /\ want = <<1, 1>>
    /\ tried = <<Vector2(1, 0)>>
    /\ game.hero.velocity = <<1, 0>>
    /\ move.from = Vector2(0, 0)
    /\ game.level = 2
    /\ get(game, Vector2(0, 1)) # default_tile

\* C10: while a move is being animated the player's input starts no other
\* move: try_move is not called and the velocity is not changed.  A move
\* that no load or restart interrupts completes exactly `frames` ticks
\* after it was started, with the hero one cell from where it started in
\* the direction of the move, velocity zero and moving false.
C10_MoveLockIn ==
    /\ [][(pc = "events" /\ pc' = "animate" /\ moving) =>
            /\ tried' = <<>>
            /\ moving'
            /\ frame' = frame
            /\ game' = game]_vars
    /\ []((pc = "draw" /\ move.active /\ ~move.disturbed) =>
            IF move.ticks = frames
            THEN /\ game.hero.position = VAdd(move.from, Vector2(move.dir[1], move.dir[2]))
                 /\ game.hero.velocity = <<0, 0>>
                 /\ ~moving
            ELSE /\ move.ticks < frames
                 /\ moving
                 /\ game.hero.velocity = move.dir)

\* a move that a save, but no load or restart, fell into has completed
C10_Witness ==
    /\ pc = "draw" /\ move.active /\ ~move.disturbed /\ move.ticks = frames
    /\ keys > 0
    /\ ~moving
    /\ game.hero.position = VAdd(move.from, Vector2(move.dir[1], move.dir[2]))

\* ------------------------------------------------------------------------
\* Properties of run() and main() (checked under Spec)
\* ------------------------------------------------------------------------

\* run() is being executed
InRun ==
    pc \in {"run", "attempt", "tick", "events", "animate", "wrap", "draw",
            "level_end", "end_level", "win_game", "end_game"}

\* run() is playing a level
InPlay ==
    pc \in {"attempt", "tick", "events", "animate", "wrap", "draw",
            "level_end", "end_level"}

\* C11: whenever the tick loop of run() is left because finished() is true,
\* and not because of quit, the hero is idle: moving is false and the
\* velocity is zero, and a move that was started has been animated for all
\* of its `frames` ticks.  While a move is being animated the loop is not
\* left for a finished level.
C11_CompletionWhenIdle ==
    /\ [][(pc = "tick" /\ pc' = "attempt" /\ ~game.quit) =>
            /\ finished(game)
            /\ ~moving
            /\ game.hero.velocity = <<0, 0>>
            /\ move.active => move.ticks = frames]_vars
    /\ [][(pc = "tick" /\ ~game.quit /\ move.active /\ move.ticks < frames)
            => pc' # "attempt"]_vars

\* the level was finished by a move, the move has been animated, and the
\* tick loop has been left
C11_Witness ==
    /\ pc = "attempt"
    /\ op.name = "clock.tick"
    /\ finished(game)
    /\ ~game.quit
    /\ game.moves = 1
    /\ game.hero.position = Vector2(0, 0)
    /\ game.level = 1

\* C12: while run() is playing a level, 1 <= level <= num_levels; run() is
\* entered with a level in that range; the level exceeds num_levels, by
\* one, only once the last level has been finished and the play loop left.
C12_LevelInRange ==
    /\ [](InPlay => (1 <= game.level /\ game.level <= num_levels))
    /\ [](InRun => (1 <= game.level /\ game.level <= num_levels + 1))
    /\ [][(game'.level > num_levels /\ game.level <= num_levels) =>
            /\ pc = "level_end" /\ pc' = "run"
            /\ game.level = num_levels
            /\ finished(game)
            /\ game'.level = num_levels + 1]_vars

\* the last level has been finished and the play loop left
C12_Witness ==
    /\ pc = "run"
    /\ game.level = num_levels + 1
    /\ ~game.quit

\* C13: every run() ends with exactly one call of end_game(); win_game() is
\* played before it, once, if and only if level > num_levels.
C13_EndGameOnce ==
    /\ [][(InRun /\ pc' = "title") =>
            /\ pc = "end_game"
            /\ hist'.end_game = 1
            /\ hist'.win_game = IF game.level > num_levels THEN 1 ELSE 0]_vars
    /\ [](pc = "win_game" => game.level > num_levels)
    /\ [](pc = "end_game" => hist.end_game = 0)
    /\ [](InPlay \/ pc \in {"run", "win_game"} => hist = NoHist)

\* run() has returned after the last level: win_game() and end_game() were
\* each called once
C13_Witness ==
    /\ pc = "title"
    /\ hist = [win_game |-> 1, end_game |-> 1]
    /\ game.level = num_levels + 1

\* C14: in run() the level number changes only when a level is finished,
\* and then by exactly one; every finished level makes it change; the
\* effect of end_level() is played, for all of its frames, for every
\* finished level except the last, for which no frame is played.
C14_LevelProgression ==
    /\ [][(InRun /\ pc' # "exited" /\ game'.level # game.level) =>
            /\ finished(game)
            /\ game'.level = game.level + 1
            /\ pc \in {"level_end", "end_level"} /\ pc' = "run"]_vars
    /\ [][(pc = "level_end" /\ finished(game) /\ pc' # "exited") =>
            IF game.level = num_levels
            THEN game'.level = game.level + 1 /\ pc' = "run"
            ELSE game'.level = game.level /\ pc' = "end_level" /\ effect' = 0]_vars
    /\ [][(pc = "level_end" /\ ~finished(game) /\ pc' # "exited") =>
            pc' = "run" /\ game'.level = game.level]_vars
    /\ [][(pc = "end_level" /\ pc' = "run") =>
            /\ effect = frames_per_second
            /\ game.level < num_levels
            /\ game'.level = game.level + 1]_vars
    /\ [][(pc = "end_level" /\ pc' = "end_level" /\ effect' # effect) =>
            /\ effect' = effect + 1
            /\ game'.level = game.level]_vars
    /\ [](pc = "end_level" => game.level < num_levels /\ finished(game))

\* the effect has been played for level 1, and level 2 is about to be
\* started
C14_Witness ==
    /\ pc = "run"
    /\ game.level = 2
    /\ finished(game)
    /\ ~game.quit
    /\ game.hero.position = Vector2(0, 0)
    /\ game.level_width = 3

\* C15: once the quit flag is set in run(), no further tick is played, the
\* level number is not advanced, and neither the effect of end_level() nor
\* that of win_game() is played before run() returns.
C15_QuitUnwinds ==
    [][(InRun /\ game.quit /\ pc' # "exited") =>
            /\ game'.level = game.level
            /\ pc' \notin {"end_level", "win_game"}
            /\ pc = "tick" => pc' # "events"
            /\ pc = "attempt" => pc' # "tick"
            /\ pc = "run" => pc' # "attempt"]_vars

\* C16 as stated: after Q is pressed during play no further title screen is
\* shown: run() does not return to the title screen with the quit flag set;
\* the process ends through quit_game().
C16_QuitInPlayEndsProcess ==
    [][(pc = "end_game" /\ game.quit) => pc' = "exited"]_vars

\* C16 amended: the process ends only through quit_game(): for Q pressed on
\* the title screen, for a pygame.QUIT event polled by the title screen or
\* by the tick loop, and for an interrupt; nothing follows.  Q pressed
\* during play only ends run(), which returns to the title screen, as
\* finishing all the levels does.
C16_MainLoop ==
    /\ [][(pc' = "exited" /\ pc # "exited") =>
            \/ op'.name = "KeyboardInterrupt"
            \/ /\ op'.name = "quit_game"
               /\ \/ pc = "title" /\ quit_event
                  \/ pc = "title_events"
                  \/ pc = "events" /\ quit_event]_vars
    /\ [][pc = "exited" => pc' = "exited"]_vars
    /\ [][(pc = "end_game" /\ pc' # "exited") =>
            /\ pc' = "title"
            /\ title' = NoTitle
            /\ game.quit \/ game.level > num_levels]_vars
    /\ [][(pc = "events" /\ game'.quit /\ ~game.quit) => pc' = "events"]_vars

\* Q was pressed during play, run() has returned and the title screen is
\* shown again
C16_Witness ==
    /\ pc = "title_events"
    /\ game.quit
    /\ hist = [win_game |-> 0, end_game |-> 1]
    /\ game.level = 1

\* C17: every iteration of the title loop, of the tick loop and of the
\* effect loops of end_level() and win_game() acts on a pending
\* pygame.QUIT event: with such an event in the queue no iteration of any
\* of these loops is completed.
C17_CloseInEveryLoop ==
    [][quit_event =>
            /\ ~(pc = "title" /\ pc' = "title_events")
            /\ ~(pc = "events" /\ pc' = "animate")
            /\ ~(pc \in {"end_level", "win_game"} /\ effect' = effect + 1)]_vars

\* ------------------------------------------------------------------------
\* Properties of the level loading and of the title screen (checked under
\* SpecMain)
\* ------------------------------------------------------------------------

\* the pending target of the title screen, 0 when it is unset
Target == IF title.level = None THEN 0 ELSE title.level

\* the level the title screen shows as pending, 1 when it is unset
Pending == IF title.level = None THEN 1 ELSE title.level

Clamp(l, n) == IF l < 1 THEN 1 ELSE IF l > n THEN n ELSE l

\* C18: on the title screen each digit key d replaces the pending target T
\* (0 if unset) by min(num_levels, 10*T + d); any key that is neither a
\* digit, a navigation key, space nor Q resets the pending target to unset;
\* title_screen returns a value in [1, num_levels], and 1 when the target
\* is unset at commit.
C18_DigitEntry ==
    /\ [][\A event \in TitleEvents, joy \in TitleJoyAxes :
            (TitleEvent(event, joy) /\ event.type = "KEYDOWN" /\ pc' # "exited") =>
               /\ event.key \in DOMAIN DIGIT_KEYS =>
                     title'.level =
                        IF 10 * Target + DIGIT_KEYS[event.key] < found.num_levels
                        THEN 10 * Target + DIGIT_KEYS[event.key]
                        ELSE found.num_levels
               /\ event.key \notin DOMAIN DIGIT_KEYS \cup DecKeys \cup IncKeys
                                    \cup {"SPACE", "q"} =>
                     title'.level = None]_vars
    /\ [][(pc = "title_events" /\ pc' = "run") =>
            /\ 1 <= game'.level /\ game'.level <= found.num_levels
            /\ title.level = None => game'.level = 1]_vars

\* C19: on the title screen each directional input, a navigation key or a
\* joystick axis, changes the pending target by exactly one per processed
\* event, and the result is clamped to [1, num_levels].
C19_Navigation ==
    [][\A event \in TitleEvents, joy \in TitleJoyAxes :
         (TitleEvent(event, joy) /\ pc' # "exited") =>
            /\ (event.type = "KEYDOWN" /\ event.key \in DecKeys /\ joy = <<0, 0>>) =>
                  title'.level = Clamp(Pending - 1, found.num_levels)
            /\ (event.type = "KEYDOWN" /\ event.key \in IncKeys /\ joy = <<0, 0>>) =>
                  title'.level = Clamp(Pending + 1, found.num_levels)
            /\ (event.type = "JOYAXISMOTION" /\ joy \in {<<1, 0>>, <<0, 1>>}) =>
                  title'.level = Clamp(Pending + joy[1] - joy[2], found.num_levels)]_vars

\* the file name is made of a non-empty stem and .tmx
IsMapName(name) ==
    /\ Len(name) > Len(tmx)
    /\ SubSeq(name, Len(name) - Len(tmx) + 1, Len(name)) = tmx

\* a comes before b in the lexicographic order of their characters
Before(a, b) ==
    \E k \in 1..(Len(b)) :
        /\ \A i \in 1..(k - 1) : i <= Len(a) /\ a[i] = b[i]
        /\ \/ k = Len(a) + 1
           \/ k <= Len(a) /\ Ord(a[k]) < Ord(b[k])

\* C20: levels_files is exactly the regular files of the levels directory
\* whose name does not start with '.' and whose suffix is '.tmx', in
\* ascending lexicographic order (level1 < level10 < level2); when there is
\* none, or the directory cannot be read, the program ends with an error
\* and no title screen is shown, so that num_levels >= 1 whenever
\* title_screen or run executes.
C20_LevelDiscovery ==
    /\ [](pc \in {"title", "title_events", "run"} =>
            /\ levels_dir.readable
            /\ {found.levels_files[i] : i \in 1..Len(found.levels_files)}
                  = {f.name : f \in {e \in levels_dir.entries :
                                        /\ e.is_file
                                        /\ e.name[1] # "."
                                        /\ IsMapName(e.name)}}
            /\ \A i \in 1..(Len(found.levels_files) - 1) :
                  Before(found.levels_files[i], found.levels_files[i + 1])
            /\ found.num_levels = Len(found.levels_files)
            /\ found.num_levels >= 1)
    /\ [][pc = "main" =>
            (pc' = die) =
               \/ ~levels_dir.readable
               \/ ~\E e \in levels_dir.entries :
                      e.is_file /\ e.name[1] # "." /\ IsMapName(e.name)]_vars
    /\ [][pc = die => pc' = die]_vars

\* the directory holds l1.tmx, l10.tmx and l2.tmx among others, and the
\* title screen is shown with the levels in lexicographic order
C20_Witness ==
    /\ pc = "title"
    /\ levels_dir.entries = EntryPool
    /\ found.num_levels = 4
    /\ found.levels_files[2] = <<"l", "1">> \o tmx
    /\ found.levels_files[3] = <<"l", "1", "0">> \o tmx
    /\ found.levels_files[4] = <<"l", "2">> \o tmx

\* ------------------------------------------------------------------------
\* The hero marker (checked under Spec)
\* ------------------------------------------------------------------------

\* the cells of a grid that hold a tile of type hero in the given tileset
HeroCells(grid, tileset) ==
    {c \in {<<x - 1, y - 1>> : x \in DOMAIN grid[1], y \in DOMAIN grid} :
        /\ CellAt(grid, c) # 0
        /\ tileset[CellAt(grid, c)] = hero_tile}

\* no cell of the live grid reads as the hero tile
NoHero(s) == \A c \in Cells(s) : get(s, Vector2(c[1], c[2])) # hero_tile

\* C21: after restart_level() or load_position() no cell of the live grid
\* holds hero_tile and hero.position is the cell where the marker was (in
\* the level file, in the saved grid); at every tick boundary of the play
\* loop, and at every other step of it, the live grid holds no hero_tile.
C21_HeroMarkerConsumed ==
    /\ [][(op'.name = "load_position" /\ pc' \in {"events", "tick"}) =>
            /\ NoHero(game')
            /\ HeroCells(game.saved, game.tmx_data[game.map_data].tileset)
                  = {CellOf(game'.hero.position)}
            /\ game'.hero.position = Vector2(CellOf(game'.hero.position)[1],
                                             CellOf(game'.hero.position)[2])]_vars
    /\ [][(op'.name = "restart_level" /\ pc' = "events") =>
            /\ NoHero(game')
            /\ HeroCells(levels_files[game.level].data,
                         levels_files[game.level].tileset)
                  = {CellOf(game'.hero.position)}
            /\ game'.hero.position = Vector2(CellOf(game'.hero.position)[1],
                                             CellOf(game'.hero.position)[2])]_vars
    /\ [](pc \in {"attempt", "tick", "events", "animate", "wrap", "draw"}
            => NoHero(game))

\* the position saved after a move onto the jewel has been loaded: the
\* marker of the saved grid is on the cell the hero moved to
C21_Witness ==
    /\ pc = "events"
    /\ op.name = "load_position"
    /\ game.level = 1
    /\ game.moves = 1
    /\ HeroCells(game.saved, game.tmx_data[game.map_data].tileset) = {<<0, 0>>}
    /\ game.hero.position = Vector2(0, 0)
    /\ NoHero(game)

\* ------------------------------------------------------------------------
\* WinColl (src/wincoll/wincoll_game.py).  The tiles of a WinColl game are
\* the engine's empty, brick and hero and the six it adds; the board is
\* map_blocks[y + 1][x + 1], positions are whole cells <<x, y>>.
\* ------------------------------------------------------------------------

SAFE == "safe"
DIAMOND == "diamond"
BLOB == "blob"
EARTH == "earth"
ROCK == "rock"
KEY == "key"

WincollTile == {EMPTY, BRICK, HERO, SAFE, DIAMOND, BLOB, EARTH, ROCK, KEY}

\* the engine's get of a WinColl game: the tile of the cell, and the
\* impassable tile for a position outside the map
Game_get(w, pos) ==
    IF (0 <= pos[1] /\ pos[1] < w.level_width)
          /\ (0 <= pos[2] /\ pos[2] < w.level_height)
    THEN w.map_blocks[pos[2] + 1][pos[1] + 1]
    ELSE BRICK

\* the engine's set of a WinColl game: nothing is done outside the map
Game_set(w, pos, tile) ==
    IF (0 <= pos[1] /\ pos[1] < w.level_width)
          /\ (0 <= pos[2] /\ pos[2] < w.level_height)
    THEN [w EXCEPT !.map_blocks[pos[2] + 1][pos[1] + 1] = tile]
    ELSE w

\* WincollGame.init_physics: scan x outermost, y innermost
RECURSIVE init_physics_from(_, _)
init_physics_from(w, k) ==
    IF k >= w.level_width * w.level_height THEN w
    ELSE LET x == k \div w.level_height
             y == k % w.level_height
             block == Game_get(w, <<x, y>>)
         IN  IF block \in {DIAMOND, SAFE}
             THEN init_physics_from([w EXCEPT !.diamonds = w.diamonds + 1], k + 1)
             ELSE IF block = HERO
             THEN LET w1 == [w EXCEPT !.hero.position = <<x, y>>]
                  IN  init_physics_from(Game_set(w1, w1.hero.position, EMPTY), k + 1)
             ELSE init_physics_from(w, k + 1)

init_physics(w) == init_physics_from([w EXCEPT !.diamonds = 0], 0)

\* WincollGame.unlock: scan x outermost, y innermost
RECURSIVE unlock_from(_, _)
unlock_from(w, k) ==
    IF k >= w.level_width * w.level_height THEN w
    ELSE LET x == k \div w.level_height
             y == k % w.level_height
         IN  IF Game_get(w, <<x, y>>) = SAFE
             THEN unlock_from(Game_set(w, <<x, y>>, DIAMOND), k + 1)
             ELSE unlock_from(w, k + 1)

\* unlock() opening the safes of the hero's column only
unlock_column(w) ==
    [w EXCEPT !.map_blocks =
        [y \in DOMAIN w.map_blocks |->
            [x \in DOMAIN w.map_blocks[y] |->
                IF w.map_blocks[y][x] = SAFE
                      /\ x - 1 = w.hero.position[1] + w.hero.velocity[1]
                THEN DIAMOND ELSE w.map_blocks[y][x]]]]

unlock(w) == unlock_from(w, 0)

\* can_move() letting a rock be pushed in any direction
can_move_push_any(w, velocity) ==
    LET newpos == VAdd(w.hero.position, velocity)
        block == Game_get(w, newpos)
    IN  IF block \in {EMPTY, EARTH, DIAMOND, KEY} THEN TRUE
        ELSE IF block = ROCK
        THEN Game_get(w, VAdd(newpos, velocity)) = EMPTY
        ELSE FALSE

\* WincollGame.can_move
can_move(w, velocity) ==
    LET newpos == VAdd(w.hero.position, velocity)
        block == Game_get(w, newpos)
    IN  IF block \in {EMPTY, EARTH, DIAMOND, KEY} THEN TRUE
        ELSE IF block = ROCK
        THEN LET new_rockpos == VAdd(w.hero.position, <<velocity[1] * 2, velocity[2] * 2>>)
             IN  velocity[2] = 0 /\ Game_get(w, new_rockpos) = EMPTY
        ELSE FALSE

\* do_move() that does not count the diamond it collects
do_move_no_count(w) ==
    LET newpos == VAdd(w.hero.position, w.hero.velocity)
        block == Game_get(w, newpos)
        w1 == IF block = KEY THEN unlock(w)
              ELSE IF block = ROCK
              THEN Game_set(w, VAdd(newpos, w.hero.velocity), ROCK)
              ELSE w
    IN  Game_set(w1, newpos, EMPTY)

\* WincollGame.do_move
do_move(w) ==
    LET newpos == VAdd(w.hero.position, w.hero.velocity)
        block == Game_get(w, newpos)
        w1 == IF block = DIAMOND THEN [w EXCEPT !.diamonds = w.diamonds - 1]
              ELSE IF block = KEY THEN unlock(w)
              ELSE IF block = ROCK
              THEN LET new_rockpos == VAdd(newpos, w.hero.velocity)
                   IN  Game_set(w, new_rockpos, ROCK)
              ELSE w
    IN  Game_set(w1, newpos, EMPTY)

\* can_roll() looking at the side cell only
can_roll_side_only(w, pos) == Game_get(w, pos) = EMPTY

\* WincollGame.can_roll
can_roll(w, pos) ==
    LET side_block == Game_get(w, pos)
        side_below_block == Game_get(w, VAdd(pos, <<0, 1>>))
    IN  side_block = EMPTY /\ side_below_block = EMPTY

\* fall() taking the rock for fatal when it comes to rest on the hero's cell
fall_on_hero(st, oldpos, newpos) ==
    LET g == st.game
        g1 == IF Game_get(g, newpos) = HERO THEN [g EXCEPT !.dead = TRUE] ELSE g
        g2 == Game_set(Game_set(g1, oldpos, EMPTY), newpos, ROCK)
    IN  [game |-> IF g2.falling = FALSE
                  THEN [g2 EXCEPT !.falling = TRUE, !.slide_sound = TRUE]
                  ELSE g2,
         new_fall |-> TRUE,
         moved |-> Append(st.moved, <<oldpos, newpos>>)]

\* do_physics(): the local function fall(oldpos, newpos).  st is the state
\* of one pass: the game, new_fall, and the rock movements made so far
fall(st, oldpos, newpos) ==
    LET g == st.game
        block_below == Game_get(g, VAdd(newpos, <<0, 1>>))
        g1 == IF block_below = HERO THEN [g EXCEPT !.dead = TRUE] ELSE g
        g2 == Game_set(Game_set(g1, oldpos, EMPTY), newpos, ROCK)
    IN  [game |-> IF g2.falling = FALSE
                  THEN [g2 EXCEPT !.falling = TRUE, !.slide_sound = TRUE]
                  ELSE g2,
         new_fall |-> TRUE,
         moved |-> Append(st.moved, <<oldpos, newpos>>)]

\* do_physics(): the body of the loops for the cell pos
physics_cell(st, pos) ==
    IF Game_get(st.game, pos) # ROCK THEN st
    ELSE LET pos_below == VAdd(pos, <<0, 1>>)
             block_below == Game_get(st.game, pos_below)
             pos_left == VAdd(pos, <<-1, 0>>)
             pos_right == VAdd(pos, <<1, 0>>)
         IN  IF block_below = EMPTY THEN fall(st, pos, pos_below)
             ELSE IF block_below \in {ROCK, KEY, DIAMOND, BLOB}
             THEN IF can_roll(st.game, pos_left)
                  THEN fall(st, pos, VAdd(pos_left, <<0, 1>>))
                  ELSE IF can_roll(st.game, pos_right)
                  THEN fall(st, pos, VAdd(pos_right, <<0, 1>>))
                  ELSE st
             ELSE st

\* do_physics() going through the rows from the top one down
RECURSIVE physics_from_top(_, _)
physics_from_top(st, k) ==
    IF k >= st.game.level_width * st.game.level_height THEN st
    ELSE LET row == k \div st.game.level_width
             col == k % st.game.level_width
         IN  physics_from_top(physics_cell(st, <<col, row>>), k + 1)

\* do_physics(): the rows from the bottom one up, each from left to right
RECURSIVE physics_from(_, _)
physics_from(st, k) ==
    IF k >= st.game.level_width * st.game.level_height THEN st
    ELSE LET row == st.game.level_height - 1 - (k \div st.game.level_width)
             col == k % st.game.level_width
         IN  physics_from(physics_cell(st, <<col, row>>), k + 1)

\* WincollGame.do_physics: the game after the pass, and the rock movements
\* of the pass as pairs <<oldpos, newpos>>
do_physics(w) ==
    LET st0 == [game |-> Game_set(w, w.hero.position, HERO),
                new_fall |-> FALSE, moved |-> <<>>]
        st1 == physics_from(st0, 0)
        g1 == IF st1.new_fall = FALSE
              THEN [st1.game EXCEPT !.falling = FALSE, !.slide_sound = FALSE]
              ELSE st1.game
    IN  [game |-> Game_set(g1, g1.hero.position, EMPTY), moved |-> st1.moved]

\* WincollGame.finished: the value returned
wincoll_finished(w) == w.diamonds = 0

\* WincollGame.finished: the game after the call; SLIDE_SOUND.stop()
finished_game(w) == IF w.diamonds = 0 THEN [w EXCEPT !.slide_sound = FALSE] ELSE w

\* the levels of the WinColl games played: rocks to push and rocks that
\* cannot be pushed, a key and its safes, rocks that fall and roll
WincollLevels ==
    << << <<KEY, ROCK, SAFE>>,
          <<ROCK, HERO, ROCK>>,
          <<DIAMOND, EARTH, SAFE>> >>,
       << <<EMPTY, HERO, ROCK, EMPTY>>,
          <<BRICK, DIAMOND, BRICK, EMPTY>> >>,
       << <<SAFE, KEY, SAFE>>,
          <<DIAMOND, HERO, BLOB>>,
          <<SAFE, EARTH, ROCK>> >>,
       << <<EMPTY, ROCK>>,
          <<EMPTY, DIAMOND>>,
          <<HERO, BRICK>> >>,
       << <<DIAMOND, ROCK, HERO, ROCK, EMPTY>> >>,
       << <<ROCK, ROCK, EMPTY>>,
          <<EARTH, KEY, EMPTY>>,
          <<HERO, EMPTY, DIAMOND>> >>,
       << <<EMPTY, ROCK, EMPTY>>,
          <<EMPTY, DIAMOND, EMPTY>>,
          <<BRICK, HERO, BRICK>> >>,
       << <<ROCK, EMPTY, EMPTY>>,
          <<EMPTY, HERO, DIAMOND>>,
          <<EMPTY, BRICK, BRICK>> >> >>

\* WincollGame.__init__ and the engine's loading of level l; slide_sound
\* tells whether SLIDE_SOUND is playing
NewWincollGame(l) ==
    [level |-> l,
     map_blocks |-> WincollLevels[l],
     level_width |-> Len(WincollLevels[l][1]),
     level_height |-> Len(WincollLevels[l]),
     hero |-> [position |-> <<0, 0>>, velocity |-> <<0, 0>>],
     diamonds |-> 0, dead |-> FALSE, falling |-> FALSE, slide_sound |-> FALSE]

\* the unit displacements the engine asks can_move about
Velocities == {<<1, 0>>, <<-1, 0>>, <<0, 1>>, <<0, -1>>}

\* the variables a WinColl game, a screen or the level cache leaves alone
others == <<frame, moving, calls, keys, want, tried, move,
           title, quit_event, levels_dir, found, effect, hist>>

OthersInit ==
    /\ frame = 0
    /\ moving = FALSE
    /\ calls = 0
    /\ keys = 0
    /\ want = <<0, 0>>
    /\ tried = <<>>
    /\ move = NoMove
    /\ title = NoTitle
    /\ quit_event = FALSE
    /\ levels_dir = GameLevelsDir
    /\ found = [levels_files |-> load_levels(GameLevelsDir).levels_files,
                num_levels |-> load_levels(GameLevelsDir).num_levels]
    /\ effect = 0
    /\ hist = NoHist

InitWincoll ==
    /\ \E l \in DOMAIN WincollLevels : game = init_physics(NewWincollGame(l))
    /\ pc = "wincoll"
    /\ op = NoCall
    /\ OthersInit

\* the player asks for a move: can_move(velocity); a legal move is made:
\* do_move() with the velocity set, and the hero is taken to the next cell
WincollMove(velocity) ==
    /\ pc = "wincoll"
    /\ ~game.dead
    /\ op' = [NoCall EXCEPT !.name = "can_move", !.pos = velocity,
                            !.ret = can_move(game, velocity)]
    /\ game' = IF can_move(game, velocity)
               THEN LET w == do_move([game EXCEPT !.hero.velocity = velocity])
                    IN  [w EXCEPT !.hero.position = VAdd(w.hero.position, velocity)]
               ELSE game
    /\ UNCHANGED <<pc, others>>

\* the engine's update_map hook: do_physics(), after which the hero is at
\* rest
WincollPhysics ==
    /\ pc = "wincoll"
    /\ ~game.dead
    /\ game' = [do_physics(game).game EXCEPT !.hero.velocity = <<0, 0>>]
    /\ op' = [NoCall EXCEPT !.name = "do_physics"]
    /\ UNCHANGED <<pc, others>>

\* the engine's loading of level l into the game object w, which lives on:
\* the falling flag and the sound are those of w
StartWincollLevel(w, l) ==
    init_physics([NewWincollGame(l) EXCEPT !.falling = w.falling,
                                           !.slide_sound = w.slide_sound])

\* the attempt ends with the hero dead and the level is started again
WincollRetry ==
    /\ pc = "wincoll"
    /\ game.dead
    /\ game' = StartWincollLevel(game, game.level)
    /\ op' = [NoCall EXCEPT !.name = "init_physics"]
    /\ UNCHANGED <<pc, others>>

\* the engine's loop test: finished()
WincollFinished ==
    /\ pc = "wincoll"
    /\ ~game.dead
    /\ game' = finished_game(game)
    /\ op' = [NoCall EXCEPT !.name = "finished", !.ret = wincoll_finished(game)]
    /\ UNCHANGED <<pc, others>>

\* finished() has returned True: the engine goes on to the next level
WincollNextLevel ==
    /\ pc = "wincoll"
    /\ op.name = "finished" /\ op.ret = TRUE
    /\ game.level < Len(WincollLevels)
    /\ game' = StartWincollLevel(game, game.level + 1)
    /\ op' = [NoCall EXCEPT !.name = "start_level"]
    /\ UNCHANGED <<pc, others>>

NextWincoll ==
    \/ \E velocity \in Velocities : WincollMove(velocity)
    \/ WincollPhysics
    \/ WincollRetry
    \/ WincollFinished
    \/ WincollNextLevel

SpecWincoll == InitWincoll /\ [][NextWincoll]_vars

\* ------------------------------------------------------------------------
\* Properties of WinColl (checked under SpecWincoll)
\* ------------------------------------------------------------------------

WincollCells(w) ==
    {<<x, y>> : x \in 0..(w.level_width - 1), y \in 0..(w.level_height - 1)}

\* what the board holds at a position: the tile of the cell, or nothing for
\* a position that is out of bounds
Holds(w, pos, tiles) ==
    /\ pos \in WincollCells(w)
    /\ w.map_blocks[pos[2] + 1][pos[1] + 1] \in tiles

\* C22: can_move(v) is True iff the destination cell is empty, earth,
\* diamond or key, or it is a rock, the move is purely horizontal and the
\* cell beyond the rock is empty; a rock approached vertically, a rock with
\* a non-empty or out-of-bounds cell beyond it, and a destination that is
\* safe, blob, impassable or out of bounds are illegal.
C22_CanMove ==
    [][op'.name = "can_move" =>
        LET v == op'.pos
            dest == VAdd(game.hero.position, v)
            beyond == VAdd(dest, v)
        IN  /\ op'.ret <=>
                  \/ Holds(game, dest, {EMPTY, EARTH, DIAMOND, KEY})
                  \/ /\ Holds(game, dest, {ROCK})
                     /\ v[2] = 0
                     /\ Holds(game, beyond, {EMPTY})
            /\ (Holds(game, dest, {ROCK}) /\ v[2] # 0) => ~op'.ret
            /\ (Holds(game, dest, {ROCK}) /\ ~Holds(game, beyond, {EMPTY})) => ~op'.ret
            /\ (Holds(game, dest, {SAFE, BLOB, BRICK}) \/ dest \notin WincollCells(game))
                  => ~op'.ret]_vars

\* a rock has been pushed to the right: the hero is where the rock was and
\* the rock is one cell further
C22_Witness ==
    /\ pc = "wincoll"
    /\ op.name = "can_move" /\ op.ret /\ op.pos = <<1, 0>>
    /\ game.level = 2
    /\ game.hero.position = <<2, 0>>
    /\ Holds(game, <<3, 0>>, {ROCK})

\* C23: a move onto a key turns every safe of the board into a diamond in
\* that same operation, leaves the diamond counter as it is, clears the key
\* cell to empty and changes no other cell.
C23_Unlock ==
    [][(op'.name = "can_move" /\ op'.ret
            /\ Holds(game, VAdd(game.hero.position, op'.pos), {KEY})) =>
        LET dest == VAdd(game.hero.position, op'.pos)
        IN  /\ game'.diamonds = game.diamonds
            /\ \A c \in WincollCells(game) :
                  IF c = dest THEN Holds(game', c, {EMPTY})
                  ELSE IF Holds(game, c, {SAFE}) THEN Holds(game', c, {DIAMOND})
                  ELSE Game_get(game', c) = Game_get(game, c)]_vars

\* the hero has moved onto the key of a level with three safes: all three
\* are diamonds now and the counter still reads four
C23_Witness ==
    /\ pc = "wincoll"
    /\ op.name = "can_move" /\ op.ret /\ op.pos = <<0, -1>>
    /\ game.level = 3
    /\ game.hero.position = <<1, 0>>
    /\ Holds(game, <<0, 0>>, {DIAMOND})
    /\ Holds(game, <<2, 0>>, {DIAMOND})
    /\ Holds(game, <<0, 2>>, {DIAMOND})
    /\ game.diamonds = 4

\* C24: after init_physics and after any sequence of legal moves and
\* do_physics passes the counter `diamonds` equals the number of diamond
\* tiles plus safe tiles of the board, and finished() is True exactly when
\* no diamond and no safe remains.
C24_DiamondCounter ==
    pc = "wincoll" =>
        /\ game.diamonds =
              Cardinality({c \in WincollCells(game) : Holds(game, c, {DIAMOND, SAFE})})
        /\ wincoll_finished(game) <=>
              ~\E c \in WincollCells(game) : Holds(game, c, {DIAMOND, SAFE})

\* the safes of level 3 have been unlocked and all four diamonds collected
C24_Witness ==
    /\ pc = "wincoll"
    /\ game.level = 3
    /\ wincoll_finished(game)
    /\ ~\E c \in WincollCells(game) : Holds(game, c, {DIAMOND, SAFE, KEY})

\* C25 as stated: a do_physics pass sets dead exactly when a rock's new
\* resting cell is the hero's position.
C25_DeadWhenRockOnHeroCell ==
    [][(op'.name = "do_physics" /\ ~game.dead) =>
        LET moved == do_physics(game).moved
        IN  game'.dead <=>
               \E i \in DOMAIN moved : moved[i][2] = game.hero.position]_vars

\* C25 amended: a do_physics pass sets dead exactly when a rock falls or
\* rolls into the cell directly above the hero's cell; no rock comes to rest
\* on the hero's cell, which holds the hero marker during the pass; dead is
\* set by nothing else.
C25_DeadWhenRockAboveHero ==
    /\ [][(op'.name = "do_physics" /\ ~game.dead) =>
            LET moved == do_physics(game).moved
            IN  /\ game'.dead <=>
                      \E i \in DOMAIN moved :
                          VAdd(moved[i][2], <<0, 1>>) = game.hero.position
                /\ \A i \in DOMAIN moved : moved[i][2] # game.hero.position]_vars
    /\ [][(pc = "wincoll" /\ game'.dead /\ ~game.dead) => op'.name = "do_physics"]_vars

\* a rock has rolled off a diamond into the cell above the hero, and the
\* hero is dead
C25_Witness ==
    /\ pc = "wincoll"
    /\ op.name = "do_physics"
    /\ game.dead
    /\ game.level = 4
    /\ game.hero.position = <<0, 2>>
    /\ Holds(game, <<0, 1>>, {ROCK})
    /\ Holds(game, <<1, 0>>, {EMPTY})

\* ------------------------------------------------------------------------
\* The background colour: the screen methods of Game (game.py) and the
\* Screen class (screen.py).  A colour is <<r, g, b>>, each channel in
\* 0..255.
\* ------------------------------------------------------------------------

Color(r, g, b) == <<r, g, b>>

\* Game.default_background_colour
default_background_colour == Color(32, 32, 32)

\* the default colours of the games and screens looked at: the engine's,
\* that of Screen.__init__, and one a game sets for itself
BackgroundColours == {default_background_colour, Color(0, 0, 255), Color(100, 200, 96)}

\* Game.reinit_screen
reinit_screen(g) == [g EXCEPT !.background_colour = g.default_background_colour]

\* Game.flash_background
flash_background(g) ==
    [g EXCEPT !.background_colour =
        Color(min(255, g.background_colour[1] + 160),
              min(255, g.background_colour[2] + 160),
              min(255, g.background_colour[3] + 160))]

\* Game.fade_background taking 10 off each channel whatever the default is
fade_background_unclamped(g) ==
    [g EXCEPT !.background_colour =
        Color(max(g.background_colour[1] - 10, 0),
              max(g.background_colour[2] - 10, 0),
              max(g.background_colour[3] - 10, 0))]

\* Game.fade_background
fade_background(g) ==
    [g EXCEPT !.background_colour =
        Color(max(g.background_colour[1] - 10, g.default_background_colour[1]),
              max(g.background_colour[2] - 10, g.default_background_colour[2]),
              max(g.background_colour[3] - 10, g.default_background_colour[3]))]

\* Game.show_screen: the frame is shown, then clear_screen() and
\* fade_background()
show_screen(g) == fade_background(g)

\* Screen.reinit_screen: the surface is filled, the colour is left alone
Screen_reinit_screen(sc) == sc

\* Screen.flash_background
Screen_flash_background(sc) ==
    [sc EXCEPT !.background_colour =
        Color(min(255, sc.default_background_colour[1] + 160),
              min(255, sc.default_background_colour[2] + 160),
              min(255, sc.default_background_colour[3] + 160))]

\* Screen.fade_background
Screen_fade_background(sc) ==
    [sc EXCEPT !.background_colour =
        Color(max(sc.background_colour[1] - 10, sc.default_background_colour[1]),
              max(sc.background_colour[2] - 10, sc.default_background_colour[2]),
              max(sc.background_colour[3] - 10, sc.default_background_colour[3]))]

\* Screen.show_screen: flip, reinit_screen(), fade_background()
Screen_show_screen(sc) == Screen_fade_background(Screen_reinit_screen(sc))

\* Screen.__init__
NewScreen(background_colour) ==
    [background_colour |-> background_colour,
     default_background_colour |-> background_colour]

\* a Game whose screen has been initialised (init_screen calls
\* reinit_screen), and a Screen object, here its attribute screen
InitScreen ==
    /\ \E d \in BackgroundColours, b \in BackgroundColours :
          game = [background_colour |-> d,
                  default_background_colour |-> d,
                  screen |-> NewScreen(b)]
    /\ pc = "screen"
    /\ op = NoCall
    /\ OthersInit

\* the objects whose methods are called
ScreenObjects == {"Game", "Screen"}

FlashBackground(obj) ==
    /\ pc = "screen"
    /\ game' = IF obj = "Game" THEN flash_background(game)
               ELSE [game EXCEPT !.screen = Screen_flash_background(game.screen)]
    /\ op' = [NoCall EXCEPT !.name = "flash_background", !.tile = obj]
    /\ UNCHANGED <<pc, others>>

FadeBackground(obj) ==
    /\ pc = "screen"
    /\ game' = IF obj = "Game" THEN fade_background(game)
               ELSE [game EXCEPT !.screen = Screen_fade_background(game.screen)]
    /\ op' = [NoCall EXCEPT !.name = "fade_background", !.tile = obj]
    /\ UNCHANGED <<pc, others>>

ShowScreen(obj) ==
    /\ pc = "screen"
    /\ game' = IF obj = "Game" THEN show_screen(game)
               ELSE [game EXCEPT !.screen = Screen_show_screen(game.screen)]
    /\ op' = [NoCall EXCEPT !.name = "show_screen", !.tile = obj]
    /\ UNCHANGED <<pc, others>>

ReinitScreen(obj) ==
    /\ pc = "screen"
    /\ game' = IF obj = "Game" THEN reinit_screen(game)
               ELSE [game EXCEPT !.screen = Screen_reinit_screen(game.screen)]
    /\ op' = [NoCall EXCEPT !.name = "reinit_screen", !.tile = obj]
    /\ UNCHANGED <<pc, others>>

NextScreen ==
    \/ \E obj \in ScreenObjects : FlashBackground(obj)
    \/ \E obj \in ScreenObjects : FadeBackground(obj)
    \/ \E obj \in ScreenObjects : ShowScreen(obj)
    \/ \E obj \in ScreenObjects : ReinitScreen(obj)

SpecScreen == InitScreen /\ [][NextScreen]_vars

\* ------------------------------------------------------------------------
\* Properties of the background colour (checked under SpecScreen)
\* ------------------------------------------------------------------------

Channels == 1..3

\* the object a call was made on
Called(g, obj) == IF obj = "Game" THEN g ELSE g.screen

\* the default colour brightened: 160 added to each channel, clamped at 255
Flashed(default) ==
    [c \in Channels |-> IF default[c] + 160 > 255 THEN 255 ELSE default[c] + 160]

\* C26: flash_background() sets each channel of the background colour to
\* min(255, default channel + 160), whatever the current colour is, so that
\* a second flash before the fade is over gives the colour of the first.
C26_FlashRelativeToDefault ==
    [][op'.name = "flash_background" =>
          Called(game', op'.tile).background_colour
             = Flashed(Called(game, op'.tile).default_background_colour)]_vars

RECURSIVE Shown(_, _)
\* the Game after n show_screen() calls
Shown(g, n) == IF n = 0 THEN g ELSE Shown(show_screen(g), n - 1)

RECURSIVE Screen_shown(_, _)
\* the Screen after n show_screen() calls
Screen_shown(sc, n) == IF n = 0 THEN sc ELSE Screen_shown(Screen_show_screen(sc), n - 1)

\* C27: from any reachable state, 16 consecutive show_screen() calls with no
\* flash_background() between them leave the background colour equal to the
\* default colour, however many flashes came before.
C27_FlashDecay ==
    pc = "screen" =>
        /\ Shown(game, 16).background_colour = game.default_background_colour
        /\ Screen_shown(game.screen, 16).background_colour
              = game.screen.default_background_colour

\* C28: after any sequence of flash_background, fade_background,
\* show_screen and reinit_screen every channel c of the background colour
\* satisfies default_c <= c <= 255; fade_background lowers a channel by 10
\* or to default_c, whichever is higher, and never raises one.
C28_ColourRange ==
    /\ [](pc = "screen" =>
            \A obj \in ScreenObjects, c \in Channels :
               /\ Called(game, obj).default_background_colour[c]
                     <= Called(game, obj).background_colour[c]
               /\ Called(game, obj).background_colour[c] <= 255)
    /\ [][op'.name \in {"fade_background", "show_screen"} =>
            \A c \in Channels :
               LET old == Called(game, op'.tile).background_colour[c]
                   new == Called(game', op'.tile).background_colour[c]
                   default == Called(game, op'.tile).default_background_colour[c]
               IN  /\ new = IF old - 10 > default THEN old - 10 ELSE default
                   /\ new <= old]_vars

\* a Game flashed twice, with a channel clamped at 255, has been faded once
\* and a channel has come down to its default
C28_Witness ==
    /\ pc = "screen"
    /\ op.name = "fade_background" /\ op.tile = "Game"
    /\ game.default_background_colour = Color(100, 200, 96)
    /\ game.background_colour = Color(245, 245, 245)
    /\ game.screen.background_colour = game.screen.default_background_colour

\* ------------------------------------------------------------------------
\* The level cache while the level files are edited
\* ------------------------------------------------------------------------

\* the modification times of the level files lie in 1..MaxMtime
MaxMtime == 3

\* what an edit makes of level 1: the hero at the left of two jewels
Level1Edited ==
    [tileset |-> <<EMPTY, BRICK, JEWEL, HERO>>,
     data |-> << <<4, 3, 3>> >>]

\* what an edit makes of level 2: a second jewel, and no gap
Level2Edited ==
    [tileset |-> <<EMPTY, JEWEL, HERO>>,
     data |-> << <<2, 2>>,
                 <<3, 1>> >>]

\* the contents a level file has: as authored, and edited
FileVersions(l) == {levels_files[l], <<Level1Edited, Level2Edited>>[l]}

\* main() has loaded the levels, whenever their files were last modified;
\* hist keeps, for each level file, the greatest modification time that
\* load_level has seen
InitCache ==
    /\ \E mtimes \in [Levels -> 1..MaxMtime] :
          /\ game = Preload([NewGame EXCEPT !.files =
                        [l \in Levels |-> [st_mtime |-> mtimes[l],
                                           content |-> levels_files[l]]]], 1)
          /\ hist = mtimes
    /\ pc = "cache"
    /\ op = NoCall
    /\ frame = 0
    /\ moving = FALSE
    /\ calls = 0
    /\ keys = 0
    /\ want = <<0, 0>>
    /\ tried = <<>>
    /\ move = NoMove
    /\ title = NoTitle
    /\ quit_event = FALSE
    /\ levels_dir = GameLevelsDir
    /\ found = [levels_files |-> load_levels(GameLevelsDir).levels_files,
                num_levels |-> load_levels(GameLevelsDir).num_levels]
    /\ effect = 0

\* a level file is written by an editor, or replaced by another file: its
\* content and its modification time become anything
EditLevel(l, mtime, content) ==
    /\ pc = "cache"
    /\ game' = [game EXCEPT !.files[l] = [st_mtime |-> mtime, content |-> content]]
    /\ op' = [NoCall EXCEPT !.name = "edit", !.pos = l]
    /\ UNCHANGED <<pc, frame, moving, calls, keys, want, tried, move,
                   title, quit_event, levels_dir, found, effect, hist>>

\* load_level(level), as restart_level() calls it
LoadLevel(l) ==
    /\ pc = "cache"
    /\ game' = load_level(game, l)
    /\ hist' = [hist EXCEPT ![l] = max(hist[l], st_mtime(game, l))]
    /\ op' = [NoCall EXCEPT !.name = "load_level", !.pos = l]
    /\ UNCHANGED <<pc, frame, moving, calls, keys, want, tried, move,
                   title, quit_event, levels_dir, found, effect>>

NextCache ==
    \/ \E l \in Levels, mtime \in 1..MaxMtime :
          \E content \in FileVersions(l) : EditLevel(l, mtime, content)
    \/ \E l \in Levels : LoadLevel(l)

SpecCache == InitCache /\ [][NextCache]_vars

\* ------------------------------------------------------------------------
\* Properties of the level cache (checked under SpecCache)
\* ------------------------------------------------------------------------

\* the document pytmx makes of a file
Parsed(file) ==
    [tileset |-> file.tileset,
     width |-> Len(file.data[1]),
     height |-> Len(file.data),
     data |-> file.data]

\* C29: load_level(path) re-parses the file and replaces the cached
\* document and the cached grid iff the file's mtime is strictly greater
\* than map_timestamp[path]; otherwise the cache is left untouched.
\* map_timestamp[path] never decreases and after every load_level equals
\* the greatest mtime seen so far; in both cases the live grid installed is
\* a fresh copy of the cached grid.
C29_CacheReload ==
    /\ [][op'.name = "load_level" =>
            LET l == op'.pos
                file == game.files[l]
            IN  /\ IF file.st_mtime > game.map_timestamp[l]
                   THEN /\ game'.tmx_data[l] = Parsed(file.content)
                        /\ game'.map_tiles[l] = file.content.data
                        /\ game'.map_timestamp[l] = file.st_mtime
                   ELSE /\ game'.tmx_data[l] = game.tmx_data[l]
                        /\ game'.map_tiles[l] = game.map_tiles[l]
                        /\ game'.map_timestamp[l] = game.map_timestamp[l]
                /\ \A k \in Levels \ {l} :
                      /\ game'.tmx_data[k] = game.tmx_data[k]
                      /\ game'.map_tiles[k] = game.map_tiles[k]
                      /\ game'.map_timestamp[k] = game.map_timestamp[k]
                /\ game'.map_timestamp[l] = hist'[l]
                /\ game'.ref = 0
                /\ game'.ref \notin Levels
                /\ Live(game') = game'.map_tiles[l]
                /\ game'.map_data = l]_vars
    /\ [][pc = "cache" =>
            \A l \in Levels : game'.map_timestamp[l] >= game.map_timestamp[l]]_vars

\* level 1 was edited and loaded again, then replaced by the older file it
\* was at first: the cache still holds the edited level, and load_level has
\* installed a copy of it
C29_Witness ==
    /\ pc = "cache"
    /\ op.name = "load_level" /\ op.pos = 1
    /\ game.files[1].content = levels_files[1]
    /\ game.files[1].st_mtime < game.map_timestamp[1]
    /\ game.map_tiles[1] = Level1Edited.data
    /\ game.tmx_data[1] = Parsed(Level1Edited)
    /\ Live(game) = Level1Edited.data
    /\ game.ref = 0

\* ------------------------------------------------------------------------
\* update_map() (checked under Spec)
\* ------------------------------------------------------------------------

\* the tick of run() decides whether update_map() is called
WrapStep == pc = "wrap" /\ pc' = "draw"

\* C30 as stated: update_map() is called on the ticks where a hero move
\* completes, and on no tick where no move completes.
C30_UpdateMapOnlyAfterMove ==
    [][WrapStep => (op'.name = "update_map" <=> (moving /\ frame = 0))]_vars

\* C30 amended: update_map() is called on exactly the ticks where the frame
\* counter wraps to 0.  A move completes on such a tick, the `frames`-th
\* after its start, so that update_map() is called exactly once for each
\* completed move, on its last tick, and finds the velocity and the moving
\* flag still set; it is also called on every `frames`-th tick while the
\* hero stands still.
C30_UpdateMapOnWrap ==
    /\ [][WrapStep => (op'.name = "update_map" <=> frame = 0)]_vars
    /\ [][(op'.name = "update_map" /\ op.name # "update_map") => WrapStep]_vars
    /\ [][(WrapStep /\ moving) =>
            /\ move.active
            /\ IF move.ticks = frames
               THEN /\ frame = 0
                    /\ op'.name = "update_map"
                    /\ op'.ret
                    /\ ~move.disturbed => op'.pos = move.dir
                    /\ ~moving'
                    /\ game'.hero.velocity = <<0, 0>>
               ELSE /\ move.ticks < frames
                    /\ frame # 0
                    /\ op'.name # "update_map"
                    /\ moving']_vars
    /\ [][(WrapStep /\ ~moving /\ frame = 0) =>
            /\ op'.name = "update_map"
            /\ ~op'.ret
            /\ op'.pos = <<0, 0>>]_vars

\* the hero's move onto the jewel has completed, and update_map() was
\* called with the velocity of the move still set
C30_Witness ==
    /\ pc = "draw"
    /\ op.name = "update_map" /\ op.ret /\ op.pos = <<-1, 0>>
    /\ move.active /\ move.ticks = frames
    /\ game.level = 1
    /\ game.hero.position = Vector2(0, 0)
    /\ game.hero.velocity = <<0, 0>>
    /\ ~moving

\* ------------------------------------------------------------------------
\* The order of a tick (checked under Spec)
\* ------------------------------------------------------------------------

\* the calls a load, save or restart event makes
GameKeyCalls == {"load_position", "save_position", "restart_level"}

\* C31: every tick of the play loop goes through its steps in one order:
\* the events are polled, load, save and restart actions among them, before
\* the move is attempted; the move is attempted before the animation step;
\* the animation step comes before the physics hook update_map(), and the
\* hook before the drawing and show_screen().  The cell a move started in a
\* tick has emptied is empty for the update_map() of that tick and of the
\* later ticks of the move, until a load or a restart replaces the grid.
C31_TickOrder ==
    /\ [][(pc = "tick" /\ pc' # "exited" /\ quit_event' = quit_event) =>
            pc' \in {"events", "attempt"}]_vars
    /\ [][(pc = "events" /\ pc' # "exited") => pc' \in {"events", "animate"}]_vars
    /\ [][(pc = "events" /\ pc' = "events") =>
            /\ tried' = tried /\ frame' = frame /\ moving' = moving
            /\ game'.hero.velocity # game.hero.velocity => op'.name = "restart_level"]_vars
    /\ [][(op'.name \in GameKeyCalls /\ op' # op /\ pc' # "exited") =>
            \/ pc = "events" /\ pc' = "events"
            \/ pc = "attempt" /\ pc' = "tick" /\ op'.name = "load_position"]_vars
    /\ [][(tried' # <<>> /\ tried' # tried) => (pc = "events" /\ pc' = "animate")]_vars
    /\ [][(pc = "events" /\ pc' = "animate") =>
            /\ op'.name = "handle_player_controls"
            /\ game'.hero.position = game.hero.position]_vars
    /\ [][(pc = "animate" /\ pc' # "exited") =>
            /\ pc' = "wrap"
            /\ frame' = (frame + 1) % frames
            /\ game'.hero.position = VAdd(game.hero.position, game.hero.velocity)
            /\ Live(game') = Live(game)
            /\ op' = op]_vars
    /\ [][(pc = "wrap" /\ pc' # "exited") =>
            /\ pc' = "draw"
            /\ game'.hero.position = game.hero.position
            /\ Live(game') = Live(game)
            /\ (move.active /\ ~move.disturbed) =>
                  get(game, VAdd(move.from, Vector2(move.dir[1], move.dir[2]))) = empty_tile]_vars
    /\ [][(pc = "draw" /\ pc' # "exited") =>
            /\ pc' = "tick"
            /\ op'.name = "show_screen"
            /\ game' = game]_vars
    /\ [][(op'.name = "update_map" /\ op' # op) => (pc = "wrap" /\ pc' = "draw")]_vars

\* in one tick a save was made, then a move onto the jewel was started and
\* animated by one step: the hook of this tick finds the jewel gone
C31_Witness ==
    /\ pc = "wrap"
    /\ keys = 1
    /\ move.active /\ move.ticks = 1 /\ ~move.disturbed
    /\ frame = 1
    /\ game.level = 1
    /\ game.hero.position = <<7, 0>>
    /\ get(game, Vector2(0, 0)) = empty_tile
    /\ CellAt(game.saved, <<0, 0>>) # 0
    /\ game.tmx_data[game.map_data].tileset[CellAt(game.saved, <<0, 0>>)] = JEWEL

\* ------------------------------------------------------------------------
\* The idle hero (checked under Spec)
\* ------------------------------------------------------------------------

\* C34: whenever the hero is idle while a level is played, the moving flag
\* false and the velocity zero, the hero stands on a cell of the level: both
\* coordinates are whole numbers and lie within the level, whatever save,
\* load and restart events came between the moves or during them.
C34_IdleHeroOnGrid ==
    (InPlay /\ ~moving /\ game.hero.velocity = <<0, 0>>) =>
        /\ game.hero.position[1] % frames = 0
        /\ game.hero.position[2] % frames = 0
        /\ ~Outside(game, game.hero.position)

\* ------------------------------------------------------------------------
\* The title screen's readout (checked under SpecMain)
\* ------------------------------------------------------------------------

\* C35: at every frame of the title screen the level printed after
\* "Start level: " is the level title_screen() would return if play were
\* set in that frame, and so a level from 1 to num_levels.
C35_ReadoutIsReturnValue ==
    pc = "title" =>
        /\ start_level_shown(title.level) = title_return(title.level, found.num_levels)
        /\ start_level_shown(title.level) \in 1..found.num_levels

\* ------------------------------------------------------------------------
\* Rocks and the slide sound of WinColl (checked under SpecWincoll)
\* ------------------------------------------------------------------------

\* the k-th cell a pass looks at: the rows from the bottom one up, each from
\* left to right
ScanCell(w, k) == <<k % w.level_width, w.level_height - 1 - (k \div w.level_width)>>

ScanLength(w) == w.level_width * w.level_height

\* the state of a pass over w when it comes to its k-th cell
RECURSIVE PassState(_, _)
PassState(w, k) ==
    IF k = 0
    THEN [game |-> Game_set(w, w.hero.position, HERO), new_fall |-> FALSE, moved |-> <<>>]
    ELSE physics_cell(PassState(w, k - 1), ScanCell(w, k - 1))

\* a grid with one cell replaced
Put(grid, pos, tile) == [grid EXCEPT ![pos[2] + 1][pos[1] + 1] = tile]

\* where the rock at pos goes, on the board w as the pass finds it
RockTarget(w, pos) ==
    LET below == VAdd(pos, <<0, 1>>)
        left == VAdd(pos, <<-1, 0>>)
        right == VAdd(pos, <<1, 0>>)
    IN  IF Holds(w, below, {EMPTY}) THEN below
        ELSE IF Holds(w, below, {ROCK, KEY, DIAMOND, BLOB})
        THEN IF Holds(w, left, {EMPTY}) /\ Holds(w, VAdd(left, <<0, 1>>), {EMPTY})
             THEN VAdd(left, <<0, 1>>)
             ELSE IF Holds(w, right, {EMPTY}) /\ Holds(w, VAdd(right, <<0, 1>>), {EMPTY})
             THEN VAdd(right, <<0, 1>>)
             ELSE pos
        ELSE pos

\* C32: in a do_physics() pass every rock, when the pass comes to it, moves
\* straight down if the cell below is empty; otherwise, if the cell below
\* holds a rock, a key, a diamond or a blob, it rolls to the cell below and
\* to the left if the left cell and that cell are empty, else to the cell
\* below and to the right if the right cell and that cell are empty; a rock
\* on earth, a safe, a brick, the hero's marker or the bottom of the map
\* stays; and nothing else of the grid changes but the marker's removal.
C32_RockRule ==
    [][op'.name = "do_physics" =>
        /\ \A k \in 0..(ScanLength(game) - 1) :
              LET st == PassState(game, k)
                  pos == ScanCell(game, k)
                  after == PassState(game, k + 1).game.map_blocks
              IN  IF Holds(st.game, pos, {ROCK})
                  THEN after = Put(Put(st.game.map_blocks, pos, EMPTY),
                                   RockTarget(st.game, pos), ROCK)
                  ELSE after = st.game.map_blocks
        /\ game'.map_blocks = Put(PassState(game, ScanLength(game)).game.map_blocks,
                                  game.hero.position, EMPTY)]_vars

\* a pass has rolled the rock of level 7, which lay on a diamond with both
\* sides free, to the left
C32_Witness ==
    /\ op.name = "do_physics"
    /\ game.level = 7
    /\ Holds(game, <<0, 1>>, {ROCK})
    /\ Holds(game, <<1, 0>>, {EMPTY})
    /\ Holds(game, <<1, 1>>, {DIAMOND})
    /\ Holds(game, <<2, 1>>, {EMPTY})

\* the rocks of a board
Rocks(w) == {c \in WincollCells(w) : Holds(w, c, {ROCK})}

\* C36: a do_physics() pass only moves rocks into empty cells, cells that
\* are empty when the rock comes: the number of rocks is preserved; each rock moves at most once, by one row down and
\* at most one column aside; no rock is put on the hero's cell; the cells
\* that held neither a rock nor nothing are unchanged; and after the pass
\* the hero's cell is empty.
C36_PassMovesRocksOnly ==
    [][op'.name = "do_physics" =>
        LET moved == do_physics(game).moved
        IN  /\ Cardinality(Rocks(game')) = Cardinality(Rocks(game))
            /\ \A i \in DOMAIN moved :
                  /\ Holds(game, moved[i][1], {ROCK})
                  /\ \/ Holds(game, moved[i][2], {EMPTY})
                     \/ \E j \in DOMAIN moved : j < i /\ moved[j][1] = moved[i][2]
                  /\ Holds(game', moved[i][2], {ROCK})
                  /\ moved[i][2][2] = moved[i][1][2] + 1
                  /\ moved[i][2][1] - moved[i][1][1] \in {-1, 0, 1}
                  /\ moved[i][2] # game.hero.position
                  /\ \A j \in DOMAIN moved : j # i =>
                        /\ moved[j][1] # moved[i][1]
                        /\ moved[j][2] # moved[i][2]
                        /\ moved[j][1] # moved[i][2] \/ j < i
            /\ \A c \in WincollCells(game) :
                  /\ ~Holds(game, c, {ROCK, EMPTY}) =>
                        Holds(game', c, {game.map_blocks[c[2] + 1][c[1] + 1]})
                  /\ (Holds(game, c, {ROCK}) /\ ~Holds(game', c, {ROCK})) =>
                        \E i \in DOMAIN moved : moved[i][1] = c
                  /\ (Holds(game', c, {ROCK}) /\ ~Holds(game, c, {ROCK})) =>
                        \E i \in DOMAIN moved : moved[i][2] = c
            /\ Holds(game', game.hero.position, {EMPTY})]_vars

\* a pass of level 6 has moved two rocks, one straight down behind the
\* other's roll, with the hero on the board
C36_Witness ==
    /\ op.name = "do_physics"
    /\ game.level = 6
    /\ Cardinality(Rocks(game)) = 2
    /\ Holds(game, <<2, 1>>, {ROCK})
    /\ Holds(game, <<0, 0>>, {ROCK})
    /\ Holds(game, game.hero.position, {EMPTY})

\* C33: the slide sound follows the falling of rocks: after every
\* do_physics() pass in which a rock fell or rolled the looping sound is
\* playing, and after every pass in which none did it is stopped, also when
\* finished() was called or the level was changed between the passes.
C33_SlideSoundTracksFalling ==
    [][op'.name = "do_physics" =>
        game'.slide_sound = (do_physics(game).moved # <<>>)]_vars

====
